---- MODULE Spec2Model ----
(***************************************************************************)
(* Model of the Miro MCP adapter: the worker's fetch entry point, the      *)
(* per-request credential check, the MiroClientImpl HTTP helper with its   *)
(* error normalisation, and the tool handlers that wrap client results in  *)
(* the tool-response envelope.                                             *)
(***************************************************************************)
EXTENDS Integers, Sequences, FiniteSets, TLC

\* Number of inbound request slots of the hosting runtime that the model follows.
NumReqs == 2

Reqs == 1..NumReqs

(***************************************************************************)
(* Values                                                                  *)
(***************************************************************************)

\* JavaScript undefined, where a string-valued field may be missing.
UNDEF == "<undefined>"

\* A request header carrying an access token: absent, or present with a value.
NoTokenHeader == [present |-> FALSE, value |-> ""]
TokenHeader(v) == [present |-> TRUE, value |-> v]

\* The tokens of two tenants.
Tokens == {"tokA", "tokB"}

TokenHeaders == {NoTokenHeader, TokenHeader("")} \cup {TokenHeader(t) : t \in Tokens}

\* A Retry-After response header: absent, or present with its characters.
NoRetryHeader == [present |-> FALSE, value |-> << >>]
RetryHeader(chars) == [present |-> TRUE, value |-> chars]

\* Retry-After values the remote service may send: "30", "0", "120", "",
\* "abc", "30s", " 7", "-5", "1.5" and an HTTP-date ("Wed, ...").
RetryAfterValues ==
  { <<"3", "0">>, <<"0">>, <<"1", "2", "0">>, << >>, <<"a", "b", "c">>,
    <<"3", "0", "s">>, <<" ", "7">>, <<"-", "5">>, <<"1", ".", "5">>,
    <<"W", "e", "d", ",">> }

RetryHeaders == {NoRetryHeader} \cup {RetryHeader(v) : v \in RetryAfterValues}

\* A JavaScript number: an integer or NaN.
Num(n) == [nan |-> FALSE, n |-> n]
NaN == [nan |-> TRUE, n |-> 0]

\* A response body as JSON.parse / response.json() sees it: not JSON
\* ("invalid"), the JSON null, a JSON primitive or array ("prim": property
\* reads give undefined), or a JSON object with its message and error fields.
\* "undefined" is the absent result of a 204.
JsonValue(kind, message, error) ==
  [kind |-> kind, message |-> message, error |-> error, connected |-> UNDEF]
Undefined == JsonValue("undefined", UNDEF, UNDEF)
FieldValues == {UNDEF, "", "remote says no"}
ErrorFieldValues == {UNDEF, "", "invalid_request"}

Bodies ==
  {JsonValue(k, UNDEF, UNDEF) : k \in {"invalid", "null", "prim"}}
    \cup {JsonValue("obj", m, e) : m \in FieldValues, e \in ErrorFieldValues}

\* HTTP statuses the remote service answers with.
Statuses == {200, 201, 204, 400, 401, 403, 404, 429, 500}

RemoteResponse(status, retry, body) == [status |-> status, retryAfter |-> retry, body |-> body]

\* The remote answers explored: every Retry-After form on a 429, every body
\* form on every status, and a Retry-After header on non-429 answers too.
RemoteResponses ==
  {RemoteResponse(429, h, b) : h \in RetryHeaders,
                               b \in {JsonValue("invalid", UNDEF, UNDEF),
                                      JsonValue("obj", "remote says no", UNDEF)}}
    \cup {RemoteResponse(s, h, b) : s \in Statuses \ {429},
                                    h \in {NoRetryHeader, RetryHeader(<<"3", "0">>)},
                                    b \in Bodies}

(***************************************************************************)
(* parseInt(s, 10)                                                         *)
(***************************************************************************)

Digits == <<"0", "1", "2", "3", "4", "5", "6", "7", "8", "9">>
IsDigit(c) == \E i \in 1..Len(Digits) : Digits[i] = c
DigitValue(c) == (CHOOSE i \in 1..Len(Digits) : Digits[i] = c) - 1

RECURSIVE SkipWhitespace(_)
SkipWhitespace(s) ==
  IF s # << >> /\ Head(s) = " " THEN SkipWhitespace(Tail(s)) ELSE s

RECURSIVE ParseDigits(_, _)
ParseDigits(s, acc) ==
  IF s # << >> /\ IsDigit(Head(s))
  THEN ParseDigits(Tail(s), acc * 10 + DigitValue(Head(s)))
  ELSE acc

\* parseInt(s, 10): leading whitespace is skipped, an optional sign is read,
\* then the longest run of decimal digits; with no digit the result is NaN.
parseInt(s) ==
  LET t == SkipWhitespace(s)
      neg == t # << >> /\ Head(t) = "-"
      u == IF t # << >> /\ Head(t) \in {"-", "+"} THEN Tail(t) ELSE t
  IN IF u = << >> \/ ~IsDigit(Head(u))
     THEN NaN
     ELSE Num(IF neg THEN 0 - ParseDigits(u, 0) ELSE ParseDigits(u, 0))

(***************************************************************************)
(* Error classes (utils/errors)                                            *)
(***************************************************************************)

NoError ==
  [name |-> "none", isMiroApiError |-> FALSE, message |-> "", statusCode |-> 0,
   retryable |-> FALSE, retryAfterSeconds |-> Num(0)]

\* new MiroApiError(message, statusCode): the generic remote failure.
MiroApiError(message, statusCode) ==
  [name |-> "MiroApiError", isMiroApiError |-> TRUE, message |-> message,
   statusCode |-> statusCode, retryable |-> FALSE, retryAfterSeconds |-> Num(0)]

\* new RateLimitError(message, retryAfterSeconds): a MiroApiError that is
\* retryable and carries the suggested wait.
RateLimitError(message, retryAfterSeconds) ==
  [name |-> "RateLimitError", isMiroApiError |-> TRUE, message |-> message,
   statusCode |-> 429, retryable |-> TRUE, retryAfterSeconds |-> retryAfterSeconds]

\* new AuthenticationError(message): a MiroApiError that is not retryable.
AuthenticationError(message) ==
  [name |-> "AuthenticationError", isMiroApiError |-> TRUE, message |-> message,
   statusCode |-> 401, retryable |-> FALSE, retryAfterSeconds |-> Num(0)]

\* An error of the JavaScript runtime (TypeError, SyntaxError): an Error
\* that is no MiroApiError.
RuntimeError(name, message) ==
  [name |-> name, isMiroApiError |-> FALSE, message |-> message, statusCode |-> 0,
   retryable |-> FALSE, retryAfterSeconds |-> Num(0)]

\* formatErrorForLogging(error): the details object put beside the message;
\* it names the error's class and, for a rate limit, the suggested wait.
formatErrorForLogging(error) ==
  [name |-> error.name, message |-> error.message, statusCode |-> error.statusCode,
   retryable |-> error.retryable,
   hasRetryAfter |-> error.name = "RateLimitError",
   retryAfterSeconds |-> error.retryAfterSeconds]

(***************************************************************************)
(* Credentials (types/env)                                                 *)
(***************************************************************************)

\* parseTenantCredentials: headers.get('X-Miro-Access-Token') || ''.
parseTenantCredentials(header) ==
  [accessToken |-> IF header.present /\ header.value # "" THEN header.value ELSE ""]

\* A validateCredentials that tests only for a missing value: the parsed
\* token is never undefined, so it never throws.
validateCredentials_undefinedOnly(credentials) == credentials.accessToken # UNDEF

\* validateCredentials throws when the token is falsy; TRUE when it returns.
validateCredentials(credentials) == credentials.accessToken # ""

(***************************************************************************)
(* MiroClientImpl.request                                                  *)
(***************************************************************************)

API_BASE_URL == "https://api.miro.com/v2"

\* The wait used when a 429 carries no usable Retry-After header.
DefaultRetryAfter == 60

\* What a call ends with: it threw err, or it returned val.
Threw(err) == [settled |-> TRUE, threw |-> TRUE, err |-> err, val |-> Undefined]
Returned(val) == [settled |-> TRUE, threw |-> FALSE, err |-> NoError, val |-> val]
Pending == [settled |-> FALSE, threw |-> FALSE, err |-> NoError, val |-> Undefined]

\* A getAuthHeaders without its token test.
HasAccessToken_unchecked(credentials) == TRUE

\* getAuthHeaders throws when the token is falsy; TRUE when it returns.
HasAccessToken(credentials) == credentials.accessToken # ""

NoHeaders == [Authorization |-> UNDEF, ContentType |-> UNDEF]

\* A getAuthHeaders that sends the bare token, without the Bearer scheme.
getAuthHeaders_noScheme(credentials) ==
  [Authorization |-> credentials.accessToken, ContentType |-> "application/json"]

\* getAuthHeaders: the headers it returns.
getAuthHeaders(credentials) ==
  [Authorization |-> "Bearer " \o credentials.accessToken,
   ContentType |-> "application/json"]

\* { ...getAuthHeaders(), ...(options.headers || {}) }: a header of the
\* method's options replaces the auth header of the same name.
MergeHeaders(auth, optionHeaders) ==
  [Authorization |-> IF optionHeaders.Authorization # UNDEF
                     THEN optionHeaders.Authorization ELSE auth.Authorization,
   ContentType |-> IF optionHeaders.ContentType # UNDEF
                   THEN optionHeaders.ContentType ELSE auth.ContentType]

\* The headers option each client method hands to request(): none does.
OptionHeaders(method) == NoHeaders

\* response.ok
Ok(status) == status >= 200 /\ status <= 299

Truthy(field) == field # UNDEF /\ field # ""

\* The retry-after of a 429: retryAfter ? parseInt(retryAfter, 10) : 60.
RetryAfterSeconds(header) ==
  IF header.present /\ header.value # << >>
  THEN parseInt(header.value)
  ELSE Num(DefaultRetryAfter)

\* An error message that prefers the body's error field to its message field.
ErrorMessage_errorFirst(status, body) ==
  LET default == "Miro API error: " \o ToString(status)
  IN IF body.kind = "obj"
     THEN IF body.error # UNDEF /\ body.error # "" THEN body.error
          ELSE IF body.message # UNDEF /\ body.message # "" THEN body.message
          ELSE default
     ELSE default

\* The message of a generic failure: JSON.parse of the body inside try/catch
\* (reading a field of null throws and is caught), then
\* errorJson.message || errorJson.error || message.
ErrorMessage(status, body) ==
  LET default == "Miro API error: " \o ToString(status)
  IN IF body.kind = "obj"
     THEN IF Truthy(body.message) THEN body.message
          ELSE IF Truthy(body.error) THEN body.error
          ELSE default
     ELSE default

\* A request() that tests response.ok before the 429 and 401/403 rules.
Classify_okFirst(resp) ==
  IF ~Ok(resp.status)
  THEN Threw(MiroApiError(ErrorMessage(resp.status, resp.body), resp.status))
  ELSE IF resp.status = 204
  THEN Returned(Undefined)
  ELSE IF resp.body.kind = "invalid"
  THEN Threw(RuntimeError("SyntaxError", "Unexpected token in JSON"))
  ELSE Returned(resp.body)

\* request(), from the arrival of the response on: the status rules in the
\* order of the code, then the 204 rule, then response.json().
Classify(resp) ==
  IF resp.status = 429
  THEN Threw(RateLimitError("Rate limit exceeded", RetryAfterSeconds(resp.retryAfter)))
  ELSE IF resp.status = 401 \/ resp.status = 403
  THEN Threw(AuthenticationError("Authentication failed. Check your Miro access token."))
  ELSE IF ~Ok(resp.status)
  THEN Threw(MiroApiError(ErrorMessage(resp.status, resp.body), resp.status))
  ELSE IF resp.status = 204
  THEN Returned(Undefined)
  ELSE IF resp.body.kind = "invalid"
  THEN Threw(RuntimeError("SyntaxError", "Unexpected token in JSON"))
  ELSE Returned(resp.body)

\* fetch() rejecting: the network failed before any response arrived.
FetchFailed == Threw(RuntimeError("TypeError", "fetch failed"))

\* request() when getAuthHeaders throws, before fetch is called.
NoTokenFailure ==
  Threw(AuthenticationError("No access token provided. Include X-Miro-Access-Token header."))

\* registerBoardTools (src/unnamed/part_006:10-222): one record per server.tool(...) call, with the
\* client method its handler awaits and the way it renders the result.
registerBoardTools ==
  {
    [name |-> "miro_list_boards", method |-> "listBoards", kind |-> "format", label |-> "boards", key |-> ""],
    [name |-> "miro_get_board", method |-> "getBoard", kind |-> "format", label |-> "board", key |-> ""],
    [name |-> "miro_create_board", method |-> "createBoard", kind |-> "wrap", label |-> "", key |-> "board"],
    [name |-> "miro_update_board", method |-> "updateBoard", kind |-> "wrap", label |-> "", key |-> "board"],
    [name |-> "miro_delete_board", method |-> "deleteBoard", kind |-> "wrapvoid", label |-> "", key |-> ""],
    [name |-> "miro_copy_board", method |-> "copyBoard", kind |-> "wrap", label |-> "", key |-> "board"]
  }

\* registerMemberTools (src/src/tools/members.ts:10-183): one record per server.tool(...) call, with the
\* client method its handler awaits and the way it renders the result.
registerMemberTools ==
  {
    [name |-> "miro_list_board_members", method |-> "listBoardMembers", kind |-> "format", label |-> "members", key |-> ""],
    [name |-> "miro_get_board_member", method |-> "getBoardMember", kind |-> "raw", label |-> "", key |-> ""],
    [name |-> "miro_share_board", method |-> "shareBoard", kind |-> "wrapvoid", label |-> "", key |-> ""],
    [name |-> "miro_update_board_member", method |-> "updateBoardMember", kind |-> "wrap", label |-> "", key |-> "member"],
    [name |-> "miro_remove_board_member", method |-> "removeBoardMember", kind |-> "wrapvoid", label |-> "", key |-> ""]
  }

\* registerItemTools (src/unnamed/part_007:11-151): one record per server.tool(...) call, with the
\* client method its handler awaits and the way it renders the result.
registerItemTools ==
  {
    [name |-> "miro_list_items", method |-> "listItems", kind |-> "format", label |-> "items", key |-> ""],
    [name |-> "miro_get_item", method |-> "getItem", kind |-> "raw", label |-> "", key |-> ""],
    [name |-> "miro_update_item_position", method |-> "updateItemPosition", kind |-> "wrap", label |-> "", key |-> "item"],
    [name |-> "miro_delete_item", method |-> "deleteItem", kind |-> "wrapvoid", label |-> "", key |-> ""]
  }

\* registerStickyNoteTools (src/src/tools/sticky-notes.ts:10-189): one record per server.tool(...) call, with the
\* client method its handler awaits and the way it renders the result.
registerStickyNoteTools ==
  {
    [name |-> "miro_create_sticky_note", method |-> "createStickyNote", kind |-> "wrap", label |-> "", key |-> "stickyNote"],
    [name |-> "miro_get_sticky_note", method |-> "getStickyNote", kind |-> "raw", label |-> "", key |-> ""],
    [name |-> "miro_update_sticky_note", method |-> "updateStickyNote", kind |-> "wrap", label |-> "", key |-> "stickyNote"],
    [name |-> "miro_delete_sticky_note", method |-> "deleteStickyNote", kind |-> "wrapvoid", label |-> "", key |-> ""]
  }

\* registerShapeTools (src/src/tools/shapes.ts:35-229): one record per server.tool(...) call, with the
\* client method its handler awaits and the way it renders the result.
registerShapeTools ==
  {
    [name |-> "miro_create_shape", method |-> "createShape", kind |-> "wrap", label |-> "", key |-> "shape"],
    [name |-> "miro_get_shape", method |-> "getShape", kind |-> "raw", label |-> "", key |-> ""],
    [name |-> "miro_update_shape", method |-> "updateShape", kind |-> "wrap", label |-> "", key |-> "shape"],
    [name |-> "miro_delete_shape", method |-> "deleteShape", kind |-> "wrapvoid", label |-> "", key |-> ""]
  }

\* registerTextTools (src/unnamed/part_005:10-199): one record per server.tool(...) call, with the
\* client method its handler awaits and the way it renders the result.
registerTextTools ==
  {
    [name |-> "miro_create_text", method |-> "createText", kind |-> "wrap", label |-> "", key |-> "textItem"],
    [name |-> "miro_get_text", method |-> "getText", kind |-> "raw", label |-> "", key |-> ""],
    [name |-> "miro_update_text", method |-> "updateText", kind |-> "wrap", label |-> "", key |-> "textItem"],
    [name |-> "miro_delete_text", method |-> "deleteText", kind |-> "wrapvoid", label |-> "", key |-> ""]
  }

\* registerCardTools (src/unnamed/part_004:10-193): one record per server.tool(...) call, with the
\* client method its handler awaits and the way it renders the result.
registerCardTools ==
  {
    [name |-> "miro_create_card", method |-> "createCard", kind |-> "wrap", label |-> "", key |-> "card"],
    [name |-> "miro_get_card", method |-> "getCard", kind |-> "raw", label |-> "", key |-> ""],
    [name |-> "miro_update_card", method |-> "updateCard", kind |-> "wrap", label |-> "", key |-> "card"],
    [name |-> "miro_delete_card", method |-> "deleteCard", kind |-> "wrapvoid", label |-> "", key |-> ""]
  }

\* registerFrameTools (src/src/tools/frames.ts:10-229): one record per server.tool(...) call, with the
\* client method its handler awaits and the way it renders the result.
registerFrameTools ==
  {
    [name |-> "miro_create_frame", method |-> "createFrame", kind |-> "wrap", label |-> "", key |-> "frame"],
    [name |-> "miro_get_frame", method |-> "getFrame", kind |-> "raw", label |-> "", key |-> ""],
    [name |-> "miro_update_frame", method |-> "updateFrame", kind |-> "wrap", label |-> "", key |-> "frame"],
    [name |-> "miro_delete_frame", method |-> "deleteFrame", kind |-> "wrapvoid", label |-> "", key |-> ""],
    [name |-> "miro_get_frame_items", method |-> "getFrameItems", kind |-> "format", label |-> "items", key |-> ""]
  }

\* registerConnectorTools (src/unnamed/part_003:28-263): one record per server.tool(...) call, with the
\* client method its handler awaits and the way it renders the result.
registerConnectorTools ==
  {
    [name |-> "miro_list_connectors", method |-> "listConnectors", kind |-> "format", label |-> "connectors", key |-> ""],
    [name |-> "miro_create_connector", method |-> "createConnector", kind |-> "wrap", label |-> "", key |-> "connector"],
    [name |-> "miro_get_connector", method |-> "getConnector", kind |-> "raw", label |-> "", key |-> ""],
    [name |-> "miro_update_connector", method |-> "updateConnector", kind |-> "wrap", label |-> "", key |-> "connector"],
    [name |-> "miro_delete_connector", method |-> "deleteConnector", kind |-> "wrapvoid", label |-> "", key |-> ""]
  }

\* registerImageTools (src/unnamed/part_003:275-452): one record per server.tool(...) call, with the
\* client method its handler awaits and the way it renders the result.
registerImageTools ==
  {
    [name |-> "miro_create_image", method |-> "createImageFromUrl", kind |-> "wrap", label |-> "", key |-> "image"],
    [name |-> "miro_get_image", method |-> "getImage", kind |-> "raw", label |-> "", key |-> ""],
    [name |-> "miro_update_image", method |-> "updateImage", kind |-> "wrap", label |-> "", key |-> "image"],
    [name |-> "miro_delete_image", method |-> "deleteImage", kind |-> "wrapvoid", label |-> "", key |-> ""]
  }

\* registerTagTools (src/src/tools/sticky-notes.ts:201-519): one record per server.tool(...) call, with the
\* client method its handler awaits and the way it renders the result.
registerTagTools ==
  {
    [name |-> "miro_list_tags", method |-> "listTags", kind |-> "format", label |-> "tags", key |-> ""],
    [name |-> "miro_create_tag", method |-> "createTag", kind |-> "wrap", label |-> "", key |-> "tag"],
    [name |-> "miro_get_tag", method |-> "getTag", kind |-> "raw", label |-> "", key |-> ""],
    [name |-> "miro_update_tag", method |-> "updateTag", kind |-> "wrap", label |-> "", key |-> "tag"],
    [name |-> "miro_delete_tag", method |-> "deleteTag", kind |-> "wrapvoid", label |-> "", key |-> ""],
    [name |-> "miro_attach_tag", method |-> "attachTagToItem", kind |-> "wrapvoid", label |-> "", key |-> ""],
    [name |-> "miro_remove_tag", method |-> "removeTagFromItem", kind |-> "wrapvoid", label |-> "", key |-> ""],
    [name |-> "miro_get_items_by_tag", method |-> "getItemsByTag", kind |-> "format", label |-> "items", key |-> ""],
    [name |-> "miro_get_item_tags", method |-> "getTagsFromItem", kind |-> "tags", label |-> "", key |-> "tags"]
  }

\* registerEmbedTools (src/unnamed/part_002:306-479): one record per server.tool(...) call, with the
\* client method its handler awaits and the way it renders the result.
registerEmbedTools ==
  {
    [name |-> "miro_create_embed", method |-> "createEmbed", kind |-> "wrap", label |-> "", key |-> "embed"],
    [name |-> "miro_get_embed", method |-> "getEmbed", kind |-> "raw", label |-> "", key |-> ""],
    [name |-> "miro_update_embed", method |-> "updateEmbed", kind |-> "wrap", label |-> "", key |-> "embed"],
    [name |-> "miro_delete_embed", method |-> "deleteEmbed", kind |-> "wrapvoid", label |-> "", key |-> ""]
  }

\* registerAppCardTools (src/src/tools/members.ts:195-372): one record per server.tool(...) call, with the
\* client method its handler awaits and the way it renders the result.
registerAppCardTools ==
  {
    [name |-> "miro_create_app_card", method |-> "createAppCard", kind |-> "wrap", label |-> "", key |-> "appCard"],
    [name |-> "miro_get_app_card", method |-> "getAppCard", kind |-> "raw", label |-> "", key |-> ""],
    [name |-> "miro_update_app_card", method |-> "updateAppCard", kind |-> "wrap", label |-> "", key |-> "appCard"],
    [name |-> "miro_delete_app_card", method |-> "deleteAppCard", kind |-> "wrapvoid", label |-> "", key |-> ""]
  }

\* registerDocumentTools (src/src/tools/documents.ts:10-127): one record per server.tool(...) call, with the
\* client method its handler awaits and the way it renders the result.
registerDocumentTools ==
  {
    [name |-> "miro_create_document", method |-> "createDocumentFromUrl", kind |-> "wrap", label |-> "", key |-> "document"],
    [name |-> "miro_get_document", method |-> "getDocument", kind |-> "raw", label |-> "", key |-> ""],
    [name |-> "miro_delete_document", method |-> "deleteDocument", kind |-> "wrapvoid", label |-> "", key |-> ""]
  }

\* createStatelessServer, the inline miro_test_connection tool (src/unnamed/part_001:95-112): one record per server.tool(...) call, with the
\* client method its handler awaits and the way it renders the result.
registerConnectionTool ==
  {
    [name |-> "miro_test_connection", method |-> "testConnection", kind |-> "test", label |-> "", key |-> ""]
  }
\* MiroClientImpl (src/src/client.ts:254-761): one record per method, with the
\* request it makes (HTTP method, path under the API root, whether a query
\* string and a JSON body are sent), what it does with the answer, and for the
\* typed list helpers, which delegate to listItems, the type they fix.
MiroClientImpl ==
  {
    [name |-> "testConnection", http |-> "GET", path |-> "/users/me", query |-> FALSE, body |-> FALSE, post |-> "testConnection", fixedType |-> ""],
    [name |-> "listBoards", http |-> "GET", path |-> "/boards", query |-> TRUE, body |-> FALSE, post |-> "return", fixedType |-> ""],
    [name |-> "getBoard", http |-> "GET", path |-> "/boards/{boardId}", query |-> FALSE, body |-> FALSE, post |-> "return", fixedType |-> ""],
    [name |-> "createBoard", http |-> "POST", path |-> "/boards", query |-> FALSE, body |-> TRUE, post |-> "return", fixedType |-> ""],
    [name |-> "updateBoard", http |-> "PATCH", path |-> "/boards/{boardId}", query |-> FALSE, body |-> TRUE, post |-> "return", fixedType |-> ""],
    [name |-> "deleteBoard", http |-> "DELETE", path |-> "/boards/{boardId}", query |-> FALSE, body |-> FALSE, post |-> "void", fixedType |-> ""],
    [name |-> "copyBoard", http |-> "PUT", path |-> "/boards/{boardId}/copy", query |-> FALSE, body |-> TRUE, post |-> "return", fixedType |-> ""],
    [name |-> "listBoardMembers", http |-> "GET", path |-> "/boards/{boardId}/members", query |-> TRUE, body |-> FALSE, post |-> "return", fixedType |-> ""],
    [name |-> "getBoardMember", http |-> "GET", path |-> "/boards/{boardId}/members/{memberId}", query |-> FALSE, body |-> FALSE, post |-> "return", fixedType |-> ""],
    [name |-> "shareBoard", http |-> "POST", path |-> "/boards/{boardId}/members", query |-> FALSE, body |-> TRUE, post |-> "void", fixedType |-> ""],
    [name |-> "updateBoardMember", http |-> "PATCH", path |-> "/boards/{boardId}/members/{memberId}", query |-> FALSE, body |-> TRUE, post |-> "return", fixedType |-> ""],
    [name |-> "removeBoardMember", http |-> "DELETE", path |-> "/boards/{boardId}/members/{memberId}", query |-> FALSE, body |-> FALSE, post |-> "void", fixedType |-> ""],
    [name |-> "listItems", http |-> "GET", path |-> "/boards/{boardId}/items", query |-> TRUE, body |-> FALSE, post |-> "return", fixedType |-> ""],
    [name |-> "getItem", http |-> "GET", path |-> "/boards/{boardId}/items/{itemId}", query |-> FALSE, body |-> FALSE, post |-> "return", fixedType |-> ""],
    [name |-> "updateItemPosition", http |-> "PATCH", path |-> "/boards/{boardId}/items/{itemId}", query |-> FALSE, body |-> TRUE, post |-> "return", fixedType |-> ""],
    [name |-> "deleteItem", http |-> "DELETE", path |-> "/boards/{boardId}/items/{itemId}", query |-> FALSE, body |-> FALSE, post |-> "void", fixedType |-> ""],
    [name |-> "listStickyNotes", http |-> "GET", path |-> "/boards/{boardId}/items", query |-> TRUE, body |-> FALSE, post |-> "return", fixedType |-> "sticky_note"],
    [name |-> "getStickyNote", http |-> "GET", path |-> "/boards/{boardId}/sticky_notes/{itemId}", query |-> FALSE, body |-> FALSE, post |-> "return", fixedType |-> ""],
    [name |-> "createStickyNote", http |-> "POST", path |-> "/boards/{boardId}/sticky_notes", query |-> FALSE, body |-> TRUE, post |-> "return", fixedType |-> ""],
    [name |-> "updateStickyNote", http |-> "PATCH", path |-> "/boards/{boardId}/sticky_notes/{itemId}", query |-> FALSE, body |-> TRUE, post |-> "return", fixedType |-> ""],
    [name |-> "deleteStickyNote", http |-> "DELETE", path |-> "/boards/{boardId}/sticky_notes/{itemId}", query |-> FALSE, body |-> FALSE, post |-> "void", fixedType |-> ""],
    [name |-> "listShapes", http |-> "GET", path |-> "/boards/{boardId}/items", query |-> TRUE, body |-> FALSE, post |-> "return", fixedType |-> "shape"],
    [name |-> "getShape", http |-> "GET", path |-> "/boards/{boardId}/shapes/{itemId}", query |-> FALSE, body |-> FALSE, post |-> "return", fixedType |-> ""],
    [name |-> "createShape", http |-> "POST", path |-> "/boards/{boardId}/shapes", query |-> FALSE, body |-> TRUE, post |-> "return", fixedType |-> ""],
    [name |-> "updateShape", http |-> "PATCH", path |-> "/boards/{boardId}/shapes/{itemId}", query |-> FALSE, body |-> TRUE, post |-> "return", fixedType |-> ""],
    [name |-> "deleteShape", http |-> "DELETE", path |-> "/boards/{boardId}/shapes/{itemId}", query |-> FALSE, body |-> FALSE, post |-> "void", fixedType |-> ""],
    [name |-> "listTexts", http |-> "GET", path |-> "/boards/{boardId}/items", query |-> TRUE, body |-> FALSE, post |-> "return", fixedType |-> "text"],
    [name |-> "getText", http |-> "GET", path |-> "/boards/{boardId}/texts/{itemId}", query |-> FALSE, body |-> FALSE, post |-> "return", fixedType |-> ""],
    [name |-> "createText", http |-> "POST", path |-> "/boards/{boardId}/texts", query |-> FALSE, body |-> TRUE, post |-> "return", fixedType |-> ""],
    [name |-> "updateText", http |-> "PATCH", path |-> "/boards/{boardId}/texts/{itemId}", query |-> FALSE, body |-> TRUE, post |-> "return", fixedType |-> ""],
    [name |-> "deleteText", http |-> "DELETE", path |-> "/boards/{boardId}/texts/{itemId}", query |-> FALSE, body |-> FALSE, post |-> "void", fixedType |-> ""],
    [name |-> "listCards", http |-> "GET", path |-> "/boards/{boardId}/items", query |-> TRUE, body |-> FALSE, post |-> "return", fixedType |-> "card"],
    [name |-> "getCard", http |-> "GET", path |-> "/boards/{boardId}/cards/{itemId}", query |-> FALSE, body |-> FALSE, post |-> "return", fixedType |-> ""],
    [name |-> "createCard", http |-> "POST", path |-> "/boards/{boardId}/cards", query |-> FALSE, body |-> TRUE, post |-> "return", fixedType |-> ""],
    [name |-> "updateCard", http |-> "PATCH", path |-> "/boards/{boardId}/cards/{itemId}", query |-> FALSE, body |-> TRUE, post |-> "return", fixedType |-> ""],
    [name |-> "deleteCard", http |-> "DELETE", path |-> "/boards/{boardId}/cards/{itemId}", query |-> FALSE, body |-> FALSE, post |-> "void", fixedType |-> ""],
    [name |-> "getImage", http |-> "GET", path |-> "/boards/{boardId}/images/{itemId}", query |-> FALSE, body |-> FALSE, post |-> "return", fixedType |-> ""],
    [name |-> "createImageFromUrl", http |-> "POST", path |-> "/boards/{boardId}/images", query |-> FALSE, body |-> TRUE, post |-> "return", fixedType |-> ""],
    [name |-> "updateImage", http |-> "PATCH", path |-> "/boards/{boardId}/images/{itemId}", query |-> FALSE, body |-> TRUE, post |-> "return", fixedType |-> ""],
    [name |-> "deleteImage", http |-> "DELETE", path |-> "/boards/{boardId}/images/{itemId}", query |-> FALSE, body |-> FALSE, post |-> "void", fixedType |-> ""],
    [name |-> "listFrames", http |-> "GET", path |-> "/boards/{boardId}/items", query |-> TRUE, body |-> FALSE, post |-> "return", fixedType |-> "frame"],
    [name |-> "getFrame", http |-> "GET", path |-> "/boards/{boardId}/frames/{itemId}", query |-> FALSE, body |-> FALSE, post |-> "return", fixedType |-> ""],
    [name |-> "createFrame", http |-> "POST", path |-> "/boards/{boardId}/frames", query |-> FALSE, body |-> TRUE, post |-> "return", fixedType |-> ""],
    [name |-> "updateFrame", http |-> "PATCH", path |-> "/boards/{boardId}/frames/{itemId}", query |-> FALSE, body |-> TRUE, post |-> "return", fixedType |-> ""],
    [name |-> "deleteFrame", http |-> "DELETE", path |-> "/boards/{boardId}/frames/{itemId}", query |-> FALSE, body |-> FALSE, post |-> "void", fixedType |-> ""],
    [name |-> "getFrameItems", http |-> "GET", path |-> "/boards/{boardId}/frames/{frameId}/items", query |-> TRUE, body |-> FALSE, post |-> "return", fixedType |-> ""],
    [name |-> "listConnectors", http |-> "GET", path |-> "/boards/{boardId}/connectors", query |-> TRUE, body |-> FALSE, post |-> "return", fixedType |-> ""],
    [name |-> "getConnector", http |-> "GET", path |-> "/boards/{boardId}/connectors/{connectorId}", query |-> FALSE, body |-> FALSE, post |-> "return", fixedType |-> ""],
    [name |-> "createConnector", http |-> "POST", path |-> "/boards/{boardId}/connectors", query |-> FALSE, body |-> TRUE, post |-> "return", fixedType |-> ""],
    [name |-> "updateConnector", http |-> "PATCH", path |-> "/boards/{boardId}/connectors/{connectorId}", query |-> FALSE, body |-> TRUE, post |-> "return", fixedType |-> ""],
    [name |-> "deleteConnector", http |-> "DELETE", path |-> "/boards/{boardId}/connectors/{connectorId}", query |-> FALSE, body |-> FALSE, post |-> "void", fixedType |-> ""],
    [name |-> "getEmbed", http |-> "GET", path |-> "/boards/{boardId}/embeds/{itemId}", query |-> FALSE, body |-> FALSE, post |-> "return", fixedType |-> ""],
    [name |-> "createEmbed", http |-> "POST", path |-> "/boards/{boardId}/embeds", query |-> FALSE, body |-> TRUE, post |-> "return", fixedType |-> ""],
    [name |-> "updateEmbed", http |-> "PATCH", path |-> "/boards/{boardId}/embeds/{itemId}", query |-> FALSE, body |-> TRUE, post |-> "return", fixedType |-> ""],
    [name |-> "deleteEmbed", http |-> "DELETE", path |-> "/boards/{boardId}/embeds/{itemId}", query |-> FALSE, body |-> FALSE, post |-> "void", fixedType |-> ""],
    [name |-> "getAppCard", http |-> "GET", path |-> "/boards/{boardId}/app_cards/{itemId}", query |-> FALSE, body |-> FALSE, post |-> "return", fixedType |-> ""],
    [name |-> "createAppCard", http |-> "POST", path |-> "/boards/{boardId}/app_cards", query |-> FALSE, body |-> TRUE, post |-> "return", fixedType |-> ""],
    [name |-> "updateAppCard", http |-> "PATCH", path |-> "/boards/{boardId}/app_cards/{itemId}", query |-> FALSE, body |-> TRUE, post |-> "return", fixedType |-> ""],
    [name |-> "deleteAppCard", http |-> "DELETE", path |-> "/boards/{boardId}/app_cards/{itemId}", query |-> FALSE, body |-> FALSE, post |-> "void", fixedType |-> ""],
    [name |-> "listTags", http |-> "GET", path |-> "/boards/{boardId}/tags", query |-> TRUE, body |-> FALSE, post |-> "return", fixedType |-> ""],
    [name |-> "getTag", http |-> "GET", path |-> "/boards/{boardId}/tags/{tagId}", query |-> FALSE, body |-> FALSE, post |-> "return", fixedType |-> ""],
    [name |-> "createTag", http |-> "POST", path |-> "/boards/{boardId}/tags", query |-> FALSE, body |-> TRUE, post |-> "return", fixedType |-> ""],
    [name |-> "updateTag", http |-> "PATCH", path |-> "/boards/{boardId}/tags/{tagId}", query |-> FALSE, body |-> TRUE, post |-> "return", fixedType |-> ""],
    [name |-> "deleteTag", http |-> "DELETE", path |-> "/boards/{boardId}/tags/{tagId}", query |-> FALSE, body |-> FALSE, post |-> "void", fixedType |-> ""],
    [name |-> "attachTagToItem", http |-> "POST", path |-> "/boards/{boardId}/items/{itemId}/tags/{tagId}", query |-> FALSE, body |-> FALSE, post |-> "void", fixedType |-> ""],
    [name |-> "removeTagFromItem", http |-> "DELETE", path |-> "/boards/{boardId}/items/{itemId}/tags/{tagId}", query |-> FALSE, body |-> FALSE, post |-> "void", fixedType |-> ""],
    [name |-> "getItemsByTag", http |-> "GET", path |-> "/boards/{boardId}/tags/{tagId}/items", query |-> TRUE, body |-> FALSE, post |-> "return", fixedType |-> ""],
    [name |-> "getTagsFromItem", http |-> "GET", path |-> "/boards/{boardId}/items/{itemId}/tags", query |-> FALSE, body |-> FALSE, post |-> "data", fixedType |-> ""],
    [name |-> "getDocument", http |-> "GET", path |-> "/boards/{boardId}/documents/{itemId}", query |-> FALSE, body |-> FALSE, post |-> "return", fixedType |-> ""],
    [name |-> "createDocumentFromUrl", http |-> "POST", path |-> "/boards/{boardId}/documents", query |-> FALSE, body |-> TRUE, post |-> "return", fixedType |-> ""],
    [name |-> "deleteDocument", http |-> "DELETE", path |-> "/boards/{boardId}/documents/{itemId}", query |-> FALSE, body |-> FALSE, post |-> "void", fixedType |-> ""]
  }

(***************************************************************************)
(* Client methods                                                          *)
(***************************************************************************)

ClientMethod(name) == CHOOSE m \in MiroClientImpl : m.name = name

\* testConnection's result object { connected, message, user? }.
ConnectionResult(connected, message) ==
  [kind |-> "obj", message |-> message, error |-> UNDEF, connected |-> connected]

\* Reading a property of undefined or of null throws a TypeError.
PropertyReadThrows(val) == val.kind \in {"undefined", "null"}

PropertyTypeError == RuntimeError("TypeError", "Cannot read properties of undefined")

\* A testConnection without its try/catch: a failure of request() leaves it.
ClientReturn_testConnectionThrows(name, out) ==
  LET post == ClientMethod(name).post
  IN CASE post = "return" -> out
       [] post = "void" -> IF out.threw THEN out ELSE Returned(Undefined)
       [] post = "data" ->
            IF out.threw THEN out
            ELSE IF PropertyReadThrows(out.val) THEN Threw(PropertyTypeError)
            ELSE IF out.val.kind = "obj" THEN Returned(JsonValue("prim", UNDEF, UNDEF))
            ELSE Returned(Undefined)
       [] post = "testConnection" ->
            IF out.threw THEN out
            ELSE IF PropertyReadThrows(out.val) THEN Threw(PropertyTypeError)
            ELSE Returned(ConnectionResult("true", "Connected as user"))

\* What a client method ends with, given what its request() call ended
\* with: most return it as it is, the void methods await it and return
\* nothing, getTagsFromItem reads response.data, testConnection reads
\* user.name inside a try whose catch returns { connected: false, message }.
ClientReturn(name, out) ==
  LET post == ClientMethod(name).post
  IN CASE post = "return" -> out
       [] post = "void" -> IF out.threw THEN out ELSE Returned(Undefined)
       [] post = "data" ->
            IF out.threw THEN out
            ELSE IF PropertyReadThrows(out.val) THEN Threw(PropertyTypeError)
            ELSE IF out.val.kind = "obj" THEN Returned(JsonValue("prim", UNDEF, UNDEF))
            ELSE Returned(Undefined)
       [] post = "testConnection" ->
            IF out.threw THEN Returned(ConnectionResult("false", out.err.message))
            ELSE IF PropertyReadThrows(out.val)
            THEN Returned(ConnectionResult("false", PropertyTypeError.message))
            ELSE Returned(ConnectionResult("true", "Connected as user"))

(***************************************************************************)
(* JSON values, pages and entities                                         *)
(***************************************************************************)

\* A JSON value as a tool argument or a field of a remote answer carries it:
\* absent (undefined in JavaScript), null, a number (n, or n + 0.5 when not
\* whole) or a string.
Absent == [t |-> "absent", n |-> 0, whole |-> TRUE, s |-> ""]
JNull == [t |-> "null", n |-> 0, whole |-> TRUE, s |-> ""]
JNumber(n) == [t |-> "number", n |-> n, whole |-> TRUE, s |-> ""]
JFraction(n) == [t |-> "number", n |-> n, whole |-> FALSE, s |-> ""]
JString(s) == [t |-> "string", n |-> 0, whole |-> TRUE, s |-> s]

\* String(v), as a template literal and String() give it.
JsString(v) ==
  CASE v.t = "absent" -> "undefined"
    [] v.t = "null" -> "null"
    [] v.t = "number" -> IF v.whole THEN ToString(v.n) ELSE ToString(v.n) \o ".5"
    [] v.t = "string" -> v.s

\* The truthiness of v, as if (v) and v || d test it.
JsTruthy(v) ==
  CASE v.t \in {"absent", "null"} -> FALSE
    [] v.t = "number" -> v.n # 0 \/ ~v.whole
    [] v.t = "string" -> v.s # ""

\* v ?? d
Coalesce(v, d) == IF v.t \in {"absent", "null"} THEN d ELSE JsString(v)

\* v || d
OrElse(v, d) == IF JsTruthy(v) THEN JsString(v) ELSE d

NoObject == [present |-> FALSE, content |-> Absent, title |-> Absent, x |-> Absent, y |-> Absent]
ItemData(content, title) == [NoObject EXCEPT !.present = TRUE, !.content = content, !.title = title]
Position(x, y) == [NoObject EXCEPT !.present = TRUE, !.x = JNumber(x), !.y = JNumber(y)]

\* The i-th entity of a page: a JSON object with the fields the tables read
\* (MiroBoard, MiroItem, BoardMember, Tag); which of the optional fields it
\* has changes with i.
Entity(i) ==
  [id |-> JString("id" \o ToString(i)),
   type |-> JString("sticky_note"),
   name |-> IF i % 2 = 1 THEN JString("name" \o ToString(i)) ELSE Absent,
   description |-> IF i % 3 = 0 THEN JString("two\nlines")
                   ELSE IF i % 2 = 0 THEN JString("about") ELSE JString(""),
   viewLink |-> IF i % 2 = 1 THEN JString("https://miro.com/app/board/id") ELSE Absent,
   data |-> CASE i % 3 = 1 -> ItemData(JString("hello"), Absent)
              [] i % 3 = 2 -> ItemData(Absent, JString("a title"))
              [] OTHER -> NoObject,
   position |-> IF i % 2 = 1 THEN Position(10, 20) ELSE NoObject,
   email |-> IF i % 2 = 0 THEN JString("a@b.c") ELSE Absent,
   role |-> JString("editor"),
   title |-> JString("tag" \o ToString(i)),
   fillColor |-> IF i % 2 = 0 THEN JString("red") ELSE JNull]

\* The array value of a JSON field, or a value that is no array.
ArrayOf(items) == [array |-> TRUE, items |-> items]
NoArray == [array |-> FALSE, items |-> << >>]

\* A PaginatedResponse as response.json() gives it: the data array with the
\* size, total and cursor fields the remote service sent beside it.
Page(items, size, total, cursor) ==
  [kind |-> "obj", message |-> UNDEF, error |-> UNDEF, connected |-> UNDEF,
   data |-> ArrayOf(items), size |-> size, total |-> total, cursor |-> cursor]

(***************************************************************************)
(* Markdown rendering (utils/formatters)                                   *)
(***************************************************************************)

LowerCase == "abcdefghijklmnopqrstuvwxyz"
UpperCase == "ABCDEFGHIJKLMNOPQRSTUVWXYZ"

CharAt(s, i) == SubSeq(s, i, i)

\* c.toUpperCase() for one character.
ToUpperCase(c) ==
  IF \E i \in 1..Len(LowerCase) : CharAt(LowerCase, i) = c
  THEN CharAt(UpperCase, CHOOSE i \in 1..Len(LowerCase) : CharAt(LowerCase, i) = c)
  ELSE c

\* capitalize(str)
capitalize(str) ==
  IF str = "" THEN "" ELSE ToUpperCase(CharAt(str, 1)) \o SubSeq(str, 2, Len(str))

\* s.substring(0, 50)
Substring50(s) == IF Len(s) > 50 THEN SubSeq(s, 1, 50) ELSE s

\* isPaginatedResponse(data): an object, not null, whose data is an array.
isPaginatedResponse(data) ==
  /\ data.kind = "obj"
  /\ "data" \in DOMAIN data
  /\ data.data.array

RECURSIVE Join(_, _)
\* cells.join(sep)
Join(cells, sep) ==
  IF cells = << >> THEN ""
  ELSE IF Len(cells) = 1 THEN cells[1]
  ELSE cells[1] \o sep \o Join(Tail(cells), sep)

\* The table line of one entity.
TableRow(cells) == "| " \o Join(cells, " | ") \o " |"

\* formatBoardsTable(boards)
formatBoardsTable(boards) ==
  <<"| ID | Name | Description | View Link |", "|---|---|---|---|">>
    \o [i \in 1..Len(boards) |->
          TableRow(<<JsString(boards[i].id), JsString(boards[i].name),
                     OrElse(boards[i].description, "-"),
                     "[Open](" \o OrElse(boards[i].viewLink, "-") \o ")">>)]

\* formatItemsTable(items)
formatItemsTable(items) ==
  <<"| ID | Type | Content/Title | Position |", "|---|---|---|---|">>
    \o [i \in 1..Len(items) |->
          LET item == items[i]
              content == IF ~item.data.present THEN "-"
                         ELSE IF item.data.content.t # "absent"
                         THEN Substring50(JsString(item.data.content))
                         ELSE IF item.data.title.t # "absent"
                         THEN Substring50(JsString(item.data.title))
                         ELSE "-"
              pos == IF item.position.present
                     THEN "(" \o JsString(item.position.x) \o ", "
                              \o JsString(item.position.y) \o ")"
                     ELSE "-"
          IN TableRow(<<JsString(item.id), JsString(item.type), content, pos>>)]

\* formatMembersTable(members)
formatMembersTable(members) ==
  <<"| ID | Name | Email | Role |", "|---|---|---|---|">>
    \o [i \in 1..Len(members) |->
          TableRow(<<JsString(members[i].id), OrElse(members[i].name, "-"),
                     OrElse(members[i].email, "-"), OrElse(members[i].role, "-")>>)]

\* formatTagsTable(tags)
formatTagsTable(tags) ==
  <<"| ID | Title | Color |", "|---|---|---|">>
    \o [i \in 1..Len(tags) |->
          TableRow(<<JsString(tags[i].id), JsString(tags[i].title),
                     OrElse(tags[i].fillColor, "-")>>)]

\* The scalar fields of an entity in the order the remote service sent them.
EntityKeys == <<"id", "type", "name", "description", "viewLink", "email", "role",
                "title", "fillColor">>

\* Object.keys(first).slice(0, 5)
FirstKeys(first) ==
  LET present == SelectSeq(EntityKeys, LAMBDA k : first[k].t # "absent")
  IN SubSeq(present, 1, IF Len(present) < 5 THEN Len(present) ELSE 5)

\* formatGenericTable(items)
formatGenericTable(items) ==
  IF Len(items) = 0 THEN <<"_No items_">>
  ELSE LET keys == FirstKeys(items[1])
       IN <<TableRow(keys),
            "|" \o Join([k \in 1..Len(keys) |-> "---"], "|") \o "|">>
            \o [i \in 1..Len(items) |->
                  TableRow([k \in 1..Len(keys) |-> Coalesce(items[i][keys[k]], "-")])]

\* The backquote that encloses the cursor in the next-cursor line (a TLA+
\* string cannot hold the character itself).
Tick == "'"

\* formatPaginatedAsMarkdown without the test for an empty page.
formatPaginatedAsMarkdown_noEmptyTest(data, entityType) ==
  <<"## " \o capitalize(entityType), "">>
    \o (IF data.total.t # "absent"
        THEN <<"**Total:** " \o JsString(data.total) \o " | **Showing:** "
                 \o JsString(data.size)>>
        ELSE <<"**Showing:** " \o JsString(data.size)>>)
    \o (IF JsTruthy(data.cursor)
        THEN <<"**Next cursor:** " \o Tick \o JsString(data.cursor) \o Tick>>
        ELSE << >>)
    \o <<"">>
    \o (CASE entityType = "boards" -> formatBoardsTable(data.data.items)
          [] entityType = "items" -> formatItemsTable(data.data.items)
          [] entityType = "members" -> formatMembersTable(data.data.items)
          [] entityType = "tags" -> formatTagsTable(data.data.items)
          [] OTHER -> formatGenericTable(data.data.items))

\* formatPaginatedAsMarkdown(data, entityType): the lines it joins with "\n"
\* (a table is pushed as one string that is its lines joined the same way).
formatPaginatedAsMarkdown(data, entityType) ==
  <<"## " \o capitalize(entityType), "">>
    \o (IF data.total.t # "absent"
        THEN <<"**Total:** " \o JsString(data.total) \o " | **Showing:** "
                 \o JsString(data.size)>>
        ELSE <<"**Showing:** " \o JsString(data.size)>>)
    \o (IF JsTruthy(data.cursor)
        THEN <<"**Next cursor:** " \o Tick \o JsString(data.cursor) \o Tick>>
        ELSE << >>)
    \o <<"">>
    \o (IF Len(data.data.items) = 0
        THEN <<"_No items found._">>
        ELSE CASE entityType = "boards" -> formatBoardsTable(data.data.items)
               [] entityType = "items" -> formatItemsTable(data.data.items)
               [] entityType = "members" -> formatMembersTable(data.data.items)
               [] entityType = "tags" -> formatTagsTable(data.data.items)
               [] OTHER -> formatGenericTable(data.data.items))

(***************************************************************************)
(* Tool responses (utils/formatters and the handlers)                      *)
(***************************************************************************)

NoDetails == formatErrorForLogging(NoError)

\* The text of a content block. isString is FALSE when the expression put
\* there evaluates to undefined instead of a string.
Text(shape, parts, value, details) ==
  [isString |-> TRUE, shape |-> shape, parts |-> parts, value |-> value,
   details |-> details]

NotAString ==
  [isString |-> FALSE, shape |-> "undefined", parts |-> << >>, value |-> Undefined,
   details |-> NoDetails]

\* JSON.stringify(data, null, 2): a string, except that undefined gives undefined.
JSONstringify(data) ==
  IF data.kind = "undefined" THEN NotAString ELSE Text("json", << >>, data, NoDetails)

\* formatAsMarkdown(data, entityType): a paginated response is rendered line
\* by line; for any other value it ends in a string all the same
\* (String(undefined) for no data).
formatAsMarkdown(data, entityType) ==
  IF isPaginatedResponse(data)
  THEN Text("markdown", formatPaginatedAsMarkdown(data, entityType), data, NoDetails)
  ELSE Text("markdown", <<entityType>>, data, NoDetails)

ToolResponse(text) ==
  [content |-> <<[type |-> "text", text |-> text]>>, hasIsError |-> FALSE, isError |-> FALSE]

ErrorResponse(text) ==
  [content |-> <<[type |-> "text", text |-> text]>>, hasIsError |-> TRUE, isError |-> TRUE]

\* formatResponse(data, format, entityType)
formatResponse(data, format, entityType) ==
  IF format = "markdown"
  THEN ToolResponse(formatAsMarkdown(data, entityType))
  ELSE ToolResponse(JSONstringify(data))

\* formatError(error): "Error: <message>", with " (retryable)" appended for a
\* MiroApiError whose retryable flag is set, beside the logging details.
formatError(error) ==
  LET message == IF error.isMiroApiError
                 THEN <<"Error: ", error.message>>
                        \o (IF error.retryable THEN <<" (retryable)">> ELSE << >>)
                 ELSE <<"Error: ", error.message>>
  IN ErrorResponse(Text("error", message, Undefined, formatErrorForLogging(error)))

\* Handlers whose get tools wrap the payload as { data: payload }.
HandlerResponse_getWrapped(tool, format, res) ==
  IF res.threw
  THEN IF tool.kind = "test"
       THEN ErrorResponse(Text("error", <<"Connection failed: ", res.err.message>>,
                               Undefined, NoDetails))
       ELSE formatError(res.err)
  ELSE CASE tool.kind = "format" -> formatResponse(res.val, format, tool.label)
         [] tool.kind = "test" -> ToolResponse(JSONstringify(res.val))
         [] tool.kind = "raw" -> ToolResponse(Text("object", <<"data">>, res.val, NoDetails))
         [] tool.kind = "wrap" -> ToolResponse(Text("success", <<tool.key>>, res.val, NoDetails))
         [] tool.kind = "wrapvoid" -> ToolResponse(Text("success", << >>, Undefined, NoDetails))
         [] tool.kind = "tags" -> ToolResponse(Text("object", <<tool.key>>, res.val, NoDetails))

\* The handler of a tool, from the end of its client call on: the catch
\* block when the call threw, else the rendering of the result.
HandlerResponse(tool, format, res) ==
  IF res.threw
  THEN IF tool.kind = "test"
       THEN ErrorResponse(Text("error", <<"Connection failed: ", res.err.message>>,
                               Undefined, NoDetails))
       ELSE formatError(res.err)
  ELSE CASE tool.kind = "format" -> formatResponse(res.val, format, tool.label)
         [] tool.kind \in {"raw", "test"} -> ToolResponse(JSONstringify(res.val))
         [] tool.kind = "wrap" -> ToolResponse(Text("success", <<tool.key>>, res.val, NoDetails))
         [] tool.kind = "wrapvoid" -> ToolResponse(Text("success", << >>, Undefined, NoDetails))
         [] tool.kind = "tags" -> ToolResponse(Text("object", <<tool.key>>, res.val, NoDetails))

\* The client calls a tool's handler awaits, in order.
ToolCalls(tool) == <<tool.method>>

\* The values of the format argument a tool accepts.
Formats(tool) == IF tool.kind = "format" THEN {"json", "markdown"} ELSE {""}

(***************************************************************************)
(* State                                                                   *)
(***************************************************************************)

VARIABLES
  pc,            \* per request: "idle", "serving", "calling", "awaiting", "done"
  inbound,       \* what arrived: an HTTP request, or a direct use of the client
  httpResponse,  \* the Response the worker's fetch returned
  client,        \* the MiroClientImpl built for the request, with its credentials
  invocation,    \* the tool (or client method) invoked and its position
  calls,         \* every call handed to fetch(), in order
  inflight,      \* the number of calls awaiting their response
  response,      \* the last remote response received
  outcome,       \* what the last request() ended with
  result,        \* what the last client method ended with
  envelope,      \* the tool response the handler returned
  remote,        \* per request slot: the operations the remote service applied
  server         \* the McpServer built for the request, with the tools registered

vars ==
  <<pc, inbound, httpResponse, client, invocation, calls, inflight, response,
    outcome, result, envelope, remote, server>>

NoInbound == [via |-> "none", path |-> "", method |-> "", header |-> NoTokenHeader]
NoHttpResponse ==
  [status |-> 0, kind |-> "none", contentType |-> "", required_headers |-> << >>, tools |-> << >>]
NoClient == [built |-> FALSE, credentials |-> [accessToken |-> ""]]
NoInvocation == [tool |-> "", plan |-> << >>, step |-> 0, format |-> ""]
NoResponse == RemoteResponse(0, NoRetryHeader, Undefined)
NoEnvelope == [content |-> << >>, hasIsError |-> FALSE, isError |-> FALSE]
NoServer == [built |-> FALSE, tools |-> {}]

Init ==
  /\ pc = [r \in Reqs |-> "idle"]
  /\ inbound = [r \in Reqs |-> NoInbound]
  /\ httpResponse = [r \in Reqs |-> NoHttpResponse]
  /\ client = [r \in Reqs |-> NoClient]
  /\ invocation = [r \in Reqs |-> NoInvocation]
  /\ calls = [r \in Reqs |-> << >>]
  /\ inflight = [r \in Reqs |-> 0]
  /\ response = [r \in Reqs |-> NoResponse]
  /\ outcome = [r \in Reqs |-> Pending]
  /\ result = [r \in Reqs |-> Pending]
  /\ envelope = [r \in Reqs |-> NoEnvelope]
  /\ remote = [r \in Reqs |-> << >>]
  /\ server = [r \in Reqs |-> NoServer]

(***************************************************************************)
(* The worker's fetch                                                      *)
(***************************************************************************)

Paths == {"/health", "/mcp", "/sse", "/"}
HttpMethods == {"GET", "POST"}

\* A fetch that takes the /mcp branch whatever the method.
Route_mcpAnyMethod(path, method) ==
  IF path = "/health" THEN "health"
  ELSE IF path = "/mcp" THEN "mcp"
  ELSE IF path = "/sse" THEN "sse"
  ELSE "info"

\* The branch of fetch a request takes, in the order of its tests.
Route(path, method) ==
  IF path = "/health" THEN "health"
  ELSE IF path = "/mcp" /\ method = "POST" THEN "mcp"
  ELSE IF path = "/sse" THEN "sse"
  ELSE "info"

\* The tools list of the default response.
InfoTools ==
  <<"miro_list_boards", "miro_get_board", "miro_create_board",
    "miro_update_board", "miro_delete_board", "miro_copy_board",
    "miro_list_board_members", "miro_get_board_member",
    "miro_share_board", "miro_update_board_member",
    "miro_remove_board_member", "miro_list_items", "miro_get_item",
    "miro_update_item_position", "miro_delete_item",
    "miro_create_sticky_note", "miro_get_sticky_note",
    "miro_update_sticky_note", "miro_delete_sticky_note",
    "miro_create_shape", "miro_get_shape", "miro_update_shape",
    "miro_delete_shape", "miro_create_text", "miro_get_text",
    "miro_update_text", "miro_delete_text", "miro_create_card",
    "miro_get_card", "miro_update_card", "miro_delete_card",
    "miro_create_frame", "miro_get_frame", "miro_update_frame",
    "miro_delete_frame", "miro_get_frame_items", "miro_list_connectors",
    "miro_create_connector", "miro_get_connector",
    "miro_update_connector", "miro_delete_connector",
    "miro_create_image", "miro_get_image", "miro_update_image",
    "miro_delete_image", "miro_list_tags", "miro_create_tag",
    "miro_get_tag", "miro_update_tag", "miro_delete_tag",
    "miro_attach_tag", "miro_remove_tag", "miro_get_items_by_tag",
    "miro_get_item_tags", "miro_create_embed", "miro_get_embed",
    "miro_update_embed", "miro_delete_embed", "miro_create_app_card",
    "miro_get_app_card", "miro_update_app_card", "miro_delete_app_card",
    "miro_create_document", "miro_get_document", "miro_delete_document",
    "miro_test_connection">>

\* A rejection that answers 401 with a plain text and no list of headers.
StaticResponse_plainRejection(route) ==
  CASE route = "health" -> [status |-> 200, kind |-> "health",
                            contentType |-> "application/json",
                            required_headers |-> << >>, tools |-> << >>]
    [] route = "mcp" -> [status |-> 401, kind |-> "Unauthorized",
                         contentType |-> "text/plain", required_headers |-> << >>, tools |-> << >>]
    [] route = "sse" -> [status |-> 501, kind |-> "sse", contentType |-> "text/plain",
                         required_headers |-> << >>, tools |-> << >>]
    [] route = "info" -> [status |-> 200, kind |-> "info",
                          contentType |-> "application/json",
                          required_headers |-> <<"X-Miro-Access-Token">>, tools |-> InfoTools]

\* The Response of each branch that answers without serving a tool; for the
\* mcp branch it is the rejection returned when validateCredentials throws.
StaticResponse(route) ==
  CASE route = "health" -> [status |-> 200, kind |-> "health",
                            contentType |-> "application/json",
                            required_headers |-> << >>, tools |-> << >>]
    [] route = "mcp" -> [status |-> 401, kind |-> "Unauthorized",
                         contentType |-> "application/json",
                         required_headers |-> <<"X-Miro-Access-Token">>, tools |-> << >>]
    [] route = "sse" -> [status |-> 501, kind |-> "sse", contentType |-> "text/plain",
                         required_headers |-> << >>, tools |-> << >>]
    [] route = "info" -> [status |-> 200, kind |-> "info",
                          contentType |-> "application/json",
                          required_headers |-> <<"X-Miro-Access-Token">>, tools |-> InfoTools]

\* The Response of the MCP handler once the tool has returned its envelope.
McpResponse ==
  [status |-> 200, kind |-> "mcp", contentType |-> "mcp", required_headers |-> << >>, tools |-> << >>]

\* The tool names the README lists under "Available Tools".
ReadmeTools ==
  {"miro_list_boards", "miro_get_board", "miro_create_board",
   "miro_update_board", "miro_delete_board", "miro_list_board_members",
   "miro_add_board_member", "miro_remove_board_member",
   "miro_list_items", "miro_get_item", "miro_delete_item",
   "miro_create_sticky_note", "miro_update_sticky_note",
   "miro_create_shape", "miro_update_shape", "miro_create_text",
   "miro_update_text", "miro_create_card", "miro_update_card",
   "miro_create_frame", "miro_update_frame", "miro_create_connector",
   "miro_update_connector", "miro_create_image", "miro_update_image",
   "miro_list_tags", "miro_create_tag", "miro_attach_tag",
   "miro_create_embed", "miro_update_embed", "miro_create_app_card",
   "miro_update_app_card", "miro_create_document",
   "miro_update_document"}

\* createMiroClient(credentials): new MiroClientImpl(credentials).
createMiroClient(credentials) == [built |-> TRUE, credentials |-> credentials]

\* The tools createStatelessServer registers.
ToolCatalogue ==
  registerBoardTools \cup registerMemberTools \cup registerItemTools
    \cup registerStickyNoteTools \cup registerShapeTools \cup registerTextTools
    \cup registerCardTools \cup registerFrameTools \cup registerConnectorTools
    \cup registerImageTools \cup registerTagTools \cup registerEmbedTools
    \cup registerAppCardTools \cup registerDocumentTools \cup registerConnectionTool

Tool(name) == CHOOSE t \in ToolCatalogue : t.name = name

\* The hosting runtime hands over one inbound request at a time.
Admit(r) == \A q \in Reqs \ {r} : pc[q] = "idle"

\* fetch(request): /health, /sse and the default answer at once; POST /mcp
\* parses and validates the credentials, answers 401 when they are missing,
\* and else builds the client and the server for this request.
Fetch(r) ==
  /\ pc[r] = "idle"
  /\ Admit(r)
  /\ \E path \in Paths, method \in HttpMethods, header \in TokenHeaders :
       LET credentials == parseTenantCredentials(header)
           route == Route(path, method)
           serve == route = "mcp" /\ validateCredentials(credentials)
       IN /\ inbound' = [inbound EXCEPT ![r] =
                           [via |-> "http", path |-> path, method |-> method,
                            header |-> header]]
          /\ client' = [client EXCEPT ![r] =
                          IF serve THEN createMiroClient(credentials) ELSE NoClient]
          /\ httpResponse' = [httpResponse EXCEPT ![r] =
                                IF serve THEN NoHttpResponse ELSE StaticResponse(route)]
          /\ pc' = [pc EXCEPT ![r] = IF serve THEN "serving" ELSE "done"]
  /\ UNCHANGED <<invocation, calls, inflight, response, outcome, result, envelope>>
  /\ UNCHANGED <<remote, server>>

\* A caller of the exported createMiroClient builds a client itself, with
\* whatever credentials it holds (the factory checks nothing).
CreateClient(r) ==
  /\ pc[r] = "idle"
  /\ Admit(r)
  /\ \E token \in Tokens \cup {""} :
       client' = [client EXCEPT ![r] = createMiroClient([accessToken |-> token])]
  /\ inbound' = [inbound EXCEPT ![r] = [NoInbound EXCEPT !.via = "direct"]]
  /\ pc' = [pc EXCEPT ![r] = "serving"]
  /\ UNCHANGED <<httpResponse, invocation, calls, inflight, response, outcome,
                 result, envelope>>
  /\ UNCHANGED <<remote, server>>

(***************************************************************************)
(* Tool invocation                                                         *)
(***************************************************************************)

\* The MCP handler dispatches a tools/call to the registered handler.
CallTool(r) ==
  /\ pc[r] = "serving"
  /\ inbound[r].via = "http"
  /\ \E tool \in ToolCatalogue :
       \E format \in Formats(tool) :
         invocation' = [invocation EXCEPT ![r] =
                          [tool |-> tool.name, plan |-> ToolCalls(tool), step |-> 1,
                           format |-> format]]
  /\ pc' = [pc EXCEPT ![r] = "calling"]
  /\ UNCHANGED <<inbound, httpResponse, client, calls, inflight, response, outcome,
                 result, envelope>>
  /\ UNCHANGED <<remote, server>>

\* A direct caller invokes one method of the client it built.
CallMethod(r) ==
  /\ pc[r] = "serving"
  /\ inbound[r].via = "direct"
  /\ \E m \in MiroClientImpl :
       invocation' = [invocation EXCEPT ![r] =
                        [tool |-> "", plan |-> <<m.name>>, step |-> 1, format |-> ""]]
  /\ pc' = [pc EXCEPT ![r] = "calling"]
  /\ UNCHANGED <<inbound, httpResponse, client, calls, inflight, response, outcome,
                 result, envelope>>
  /\ UNCHANGED <<remote, server>>

CurrentMethod(r) == invocation[r].plan[invocation[r].step]

\* The call request() hands to fetch for a client method.
OutgoingCall(credentials, name) ==
  LET m == ClientMethod(name)
  IN [method |-> m.http, url |-> API_BASE_URL \o m.path, hasBody |-> m.body,
      headers |-> MergeHeaders(getAuthHeaders(credentials), OptionHeaders(name))]

\* A handler that makes the same call again when it failed with a retryable error.
NextStep_retry(inv, res) ==
  IF res.threw /\ res.err.retryable THEN inv.step
  ELSE IF ~res.threw /\ inv.step < Len(inv.plan) THEN inv.step + 1 ELSE 0

\* A handler that makes its call again whenever the call failed.
NextStep_retryAll(inv, res) ==
  IF res.threw THEN inv.step
  ELSE IF inv.step < Len(inv.plan) THEN inv.step + 1 ELSE 0

\* Where a handler goes when a client call has ended: a throw leaves the try
\* block for the catch, which returns (0); a return is followed by the next
\* awaited call, if the handler has one. No call is made again.
NextStep(inv, res) ==
  IF ~res.threw /\ inv.step < Len(inv.plan) THEN inv.step + 1 ELSE 0

\* request() has ended with out: the client method ends, and then either the
\* handler awaits its next client call or it returns its envelope.
Settle(r, out) ==
  LET inv == invocation[r]
      res == ClientReturn(CurrentMethod(r), out)
      next == NextStep(inv, res)
      more == next # 0
      served == inv.tool # ""
  IN /\ outcome' = [outcome EXCEPT ![r] = out]
     /\ result' = [result EXCEPT ![r] = res]
     /\ invocation' = [invocation EXCEPT ![r].step = IF more THEN next ELSE inv.step]
     /\ pc' = [pc EXCEPT ![r] = IF more THEN "calling" ELSE "done"]
     /\ envelope' = [envelope EXCEPT ![r] =
                       IF served /\ ~more
                       THEN HandlerResponse(Tool(inv.tool), inv.format, res)
                       ELSE envelope[r]]
     /\ httpResponse' = [httpResponse EXCEPT ![r] =
                           IF served /\ ~more THEN McpResponse ELSE httpResponse[r]]

\* A client method runs up to its await: getAuthHeaders throws for a client
\* without token, before fetch is called; else the call is handed to fetch.
ClientCall(r) ==
  /\ pc[r] = "calling"
  /\ IF HasAccessToken(client[r].credentials)
     THEN /\ calls' = [calls EXCEPT ![r] =
                         Append(calls[r], OutgoingCall(client[r].credentials, CurrentMethod(r)))]
          /\ inflight' = [inflight EXCEPT ![r] = inflight[r] + 1]
          /\ pc' = [pc EXCEPT ![r] = "awaiting"]
          /\ UNCHANGED <<invocation, outcome, result, envelope, httpResponse>>
     ELSE /\ Settle(r, NoTokenFailure)
          /\ UNCHANGED <<calls, inflight>>
  /\ UNCHANGED <<inbound, client, response>>
  /\ UNCHANGED <<remote, server>>

\* A client that drops its token when the remote service refuses it.
RemoteRespond_forgetsToken(r) ==
  /\ pc[r] = "awaiting"
  /\ \E resp \in RemoteResponses :
       /\ response' = [response EXCEPT ![r] = resp]
       /\ Settle(r, Classify(resp))
       /\ client' = [client EXCEPT ![r].credentials.accessToken =
                       IF resp.status \in {401, 403} THEN "" ELSE @]
  /\ inflight' = [inflight EXCEPT ![r] = inflight[r] - 1]
  /\ UNCHANGED <<inbound, calls>>
  /\ UNCHANGED <<remote, server>>

\* The remote service answers the call in flight; request() classifies it.
RemoteRespond(r) ==
  /\ pc[r] = "awaiting"
  /\ \E resp \in RemoteResponses :
       /\ response' = [response EXCEPT ![r] = resp]
       /\ Settle(r, Classify(resp))
  /\ inflight' = [inflight EXCEPT ![r] = inflight[r] - 1]
  /\ UNCHANGED <<inbound, client, calls>>
  /\ UNCHANGED <<remote, server>>

\* The call in flight fails in the transport: fetch rejects.
TransportFault(r) ==
  /\ pc[r] = "awaiting"
  /\ Settle(r, FetchFailed)
  /\ inflight' = [inflight EXCEPT ![r] = inflight[r] - 1]
  /\ UNCHANGED <<inbound, client, calls, response>>
  /\ UNCHANGED <<remote, server>>

\* The request is over; nothing of it is kept.
Finish(r) ==
  /\ pc[r] = "done"
  /\ pc' = [pc EXCEPT ![r] = "idle"]
  /\ inbound' = [inbound EXCEPT ![r] = NoInbound]
  /\ httpResponse' = [httpResponse EXCEPT ![r] = NoHttpResponse]
  /\ client' = [client EXCEPT ![r] = NoClient]
  /\ invocation' = [invocation EXCEPT ![r] = NoInvocation]
  /\ calls' = [calls EXCEPT ![r] = << >>]
  /\ inflight' = [inflight EXCEPT ![r] = 0]
  /\ response' = [response EXCEPT ![r] = NoResponse]
  /\ outcome' = [outcome EXCEPT ![r] = Pending]
  /\ result' = [result EXCEPT ![r] = Pending]
  /\ envelope' = [envelope EXCEPT ![r] = NoEnvelope]
  /\ UNCHANGED remote
  /\ server' = [server EXCEPT ![r] = NoServer]

Next ==
  \E r \in Reqs :
    \/ Fetch(r)
    \/ CreateClient(r)
    \/ CallTool(r)
    \/ CallMethod(r)
    \/ ClientCall(r)
    \/ RemoteRespond(r)
    \/ TransportFault(r)
    \/ Finish(r)

Spec == Init /\ [][Next]_vars

(***************************************************************************)
(* Properties                                                              *)
(***************************************************************************)

\* A tool handler has returned for request r.
ToolReturned(r) == pc[r] = "done" /\ invocation[r].tool # ""

\* The operation behind the tool failed: the call to the remote service did
\* not end in a result, or the client method could not use the result.
OperationFailed(r) == outcome[r].threw \/ result[r].threw

\* A remote response has been received and classified for request r.
Answered(r) == outcome[r].settled /\ response[r].status \in Statuses

Contains(seq, x) == \E i \in 1..Len(seq) : seq[i] = x

EnvelopeText(r) == envelope[r].content[1].text

\* POST /mcp arrived for request r with the token header absent or empty.
MissingCredentials(r) ==
  /\ inbound[r].via = "http"
  /\ inbound[r].path = "/mcp"
  /\ inbound[r].method = "POST"
  /\ (~inbound[r].header.present \/ inbound[r].header.value = "")

\* C1: a POST /mcp request whose X-Miro-Access-Token header is absent or
\* empty is answered with HTTP 401, and at no point of that request is a
\* client built, a tool handler entered or a remote call issued.
C1_MissingCredentialsRejected ==
  \A r \in Reqs :
    MissingCredentials(r) =>
      /\ pc[r] = "done"
      /\ httpResponse[r].status = 401
      /\ ~client[r].built
      /\ invocation[r] = NoInvocation
      /\ calls[r] = << >>
      /\ inflight[r] = 0
      /\ envelope[r] = NoEnvelope

\* C1 witness: a POST /mcp with a present but empty token header was rejected.
C1_Witness ==
  \E r \in Reqs :
    /\ MissingCredentials(r)
    /\ inbound[r].header.present
    /\ httpResponse[r].status = 401

\* C2: every envelope a tool returns has a non-empty content of text blocks
\* each carrying a string, and isError is present and true exactly when the
\* underlying operation failed.
C2_EnvelopeContract ==
  \A r \in Reqs :
    ToolReturned(r) =>
      /\ Len(envelope[r].content) > 0
      /\ \A i \in 1..Len(envelope[r].content) :
           /\ envelope[r].content[i].type = "text"
           /\ envelope[r].content[i].text.isString
      /\ (envelope[r].hasIsError /\ envelope[r].isError) <=> OperationFailed(r)

\* C3: when the remote service answers 401 or 403, the tool invocation fails
\* with an error classified as Authentication, whatever the tool and the body.
C3_AuthenticationFailure ==
  \A r \in Reqs :
    (ToolReturned(r) /\ Answered(r) /\ response[r].status \in {401, 403}) =>
      /\ envelope[r].hasIsError /\ envelope[r].isError
      /\ EnvelopeText(r).details.name = "AuthenticationError"

\* The Retry-After header holds no number: it is absent, or parseInt finds none.
NoRetryNumber(header) == ~header.present \/ parseInt(header.value).nan

\* C4: on a 429 the client fails with a RateLimitError carrying the seconds
\* parsed from Retry-After, and 60 when the header is absent or holds no number.
C4_RetryAfterOrDefault ==
  \A r \in Reqs :
    (Answered(r) /\ response[r].status = 429) =>
      /\ outcome[r].threw
      /\ outcome[r].err.name = "RateLimitError"
      /\ outcome[r].err.retryAfterSeconds =
           IF NoRetryNumber(response[r].retryAfter)
           THEN Num(60)
           ELSE parseInt(response[r].retryAfter.value)

\* C5: for every tool a rate-limited call gives a failure envelope whose
\* message contains " (retryable)" and which carries the wait of the
\* Retry-After header; a failure of any other class has no such marker.
C5_RetryableMarker ==
  \A r \in Reqs :
    ToolReturned(r) =>
      /\ (Answered(r) /\ response[r].status = 429
            /\ ~NoRetryNumber(response[r].retryAfter)) =>
           /\ envelope[r].hasIsError /\ envelope[r].isError
           /\ Contains(EnvelopeText(r).parts, " (retryable)")
           /\ EnvelopeText(r).details.hasRetryAfter
           /\ EnvelopeText(r).details.retryAfterSeconds =
                parseInt(response[r].retryAfter.value)
      /\ (envelope[r].isError /\ ~(Answered(r) /\ response[r].status = 429)) =>
           ~Contains(EnvelopeText(r).parts, " (retryable)")

\* The message the generic failure is to carry: the body's message field,
\* else its error field, else the default text with the status.
ExpectedGenericMessage(resp) ==
  CASE resp.body.kind = "obj" /\ resp.body.message \notin {UNDEF, ""} -> resp.body.message
    [] resp.body.kind = "obj" /\ resp.body.message \in {UNDEF, ""}
         /\ resp.body.error \notin {UNDEF, ""} -> resp.body.error
    [] OTHER -> "Miro API error: " \o ToString(resp.status)

\* C6: a non-2xx status other than 429, 401 and 403 makes the client fail
\* with a MiroApiError carrying that status and the message of the JSON
\* body's message field, else of its error field, else the default text.
C6_GenericError ==
  \A r \in Reqs :
    (Answered(r) /\ response[r].status \notin {429, 401, 403}
       /\ ~(response[r].status \in 200..299)) =>
      /\ outcome[r].threw
      /\ outcome[r].err.name = "MiroApiError"
      /\ outcome[r].err.statusCode = response[r].status
      /\ outcome[r].err.message = ExpectedGenericMessage(response[r])

\* C6 witness: a 404 whose body has an empty message and a usable error
\* field was classified.
C6_Witness ==
  \E r \in Reqs :
    /\ Answered(r)
    /\ response[r].status = 404
    /\ response[r].body.kind = "obj"
    /\ response[r].body.message = ""
    /\ response[r].body.error = "invalid_request"
    /\ outcome[r].err.message = "invalid_request"

\* C7: a 204 is a success without body: request() returns nothing without
\* failing, the client method does not fail, and the tool returns a success
\* envelope.
C7_NoContentIsSuccess ==
  \A r \in Reqs :
    (Answered(r) /\ response[r].status = 204) =>
      /\ ~outcome[r].threw
      /\ outcome[r].val = Undefined
      /\ ~result[r].threw
      /\ ToolReturned(r) => ~envelope[r].isError

C9_AuthHeadersOnEveryCall ==
  \A r \in Reqs :
    \A i \in 1..Len(calls[r]) :
      /\ calls[r][i].headers.Authorization = "Bearer " \o client[r].credentials.accessToken
      /\ calls[r][i].headers.ContentType = "application/json"
      /\ inbound[r].via = "http" =>
           calls[r][i].headers.Authorization = "Bearer " \o inbound[r].header.value

\* C9 witness: a tool of a served request has a call in flight.
C9_Witness ==
  \E r \in Reqs :
    /\ inbound[r].via = "http"
    /\ invocation[r].tool = "miro_create_sticky_note"
    /\ Len(calls[r]) = 1
    /\ inflight[r] = 1

\* C10: an invocation hands at most one call to fetch over its whole life,
\* also after a failure, and never has more than one call in flight.
C10_AtMostOneCall ==
  \A r \in Reqs :
    /\ Len(calls[r]) <= 1
    /\ inflight[r] <= 1
    /\ (outcome[r].settled /\ outcome[r].threw) => pc[r] = "done"

\* C10 witness: a tool call that was rate-limited has ended with one call made.
C10_Witness ==
  \E r \in Reqs :
    /\ ToolReturned(r)
    /\ outcome[r].threw
    /\ outcome[r].err.name = "RateLimitError"
    /\ Len(calls[r]) = 1
    /\ inflight[r] = 0

\* C11: no failure raised while a handler runs gets past it: every handler
\* ends by returning an envelope, and when the operation failed (an error of
\* the remote service, a transport fault, a TypeError) that envelope has
\* isError true and a message that is a string.
C11_FailuresBecomeEnvelopes ==
  \A r \in Reqs :
    ToolReturned(r) =>
      /\ envelope[r] # NoEnvelope
      /\ Len(envelope[r].content) = 1
      /\ OperationFailed(r) =>
           /\ envelope[r].hasIsError
           /\ envelope[r].isError
           /\ EnvelopeText(r).isString
           /\ EnvelopeText(r).shape = "error"

\* C14: the credentials of a client stay as they were set at construction
\* through every step of its request, whatever the outcome, and once the
\* request is over nothing holds them.
C14_CredentialsImmutable ==
  /\ [][\A r \in Reqs :
          (client[r].built /\ pc'[r] # "idle") => client'[r] = client[r]]_vars
  /\ [](\A r \in Reqs :
          pc[r] = "idle" =>
            /\ client[r] = NoClient
            /\ inbound[r] = NoInbound
            /\ calls[r] = << >>)

\* C14 witness: a tool call refused by the remote service has ended, and the
\* client still holds the token it was built with.
C14_Witness ==
  \E r \in Reqs :
    /\ ToolReturned(r)
    /\ outcome[r].threw
    /\ outcome[r].err.name = "AuthenticationError"
    /\ response[r].status = 403
    /\ client[r].credentials.accessToken = "tokB"
    /\ inbound[r].header.value = "tokB"

\* C15: the rejection of missing credentials is an HTTP 401 with a JSON body
\* that lists X-Miro-Access-Token as required header and is no tool envelope;
\* a 401 is given for nothing else, and a tool's failure is an envelope in the
\* MCP handler's response, never a 401.
C15_RejectionIsNotAnEnvelope ==
  \A r \in Reqs :
    /\ MissingCredentials(r) =>
         /\ httpResponse[r].status = 401
         /\ httpResponse[r].kind = "Unauthorized"
         /\ httpResponse[r].contentType = "application/json"
         /\ Contains(httpResponse[r].required_headers, "X-Miro-Access-Token")
         /\ envelope[r] = NoEnvelope
    /\ httpResponse[r].status = 401 =>
         /\ MissingCredentials(r)
         /\ invocation[r] = NoInvocation
    /\ (ToolReturned(r) /\ envelope[r].isError) =>
         /\ httpResponse[r] = McpResponse
         /\ httpResponse[r].status # 401

\* C15 witness: a POST /mcp without the token header was answered 401 with
\* the list of required headers.
C15_Witness ==
  \E r \in Reqs :
    /\ MissingCredentials(r)
    /\ ~inbound[r].header.present
    /\ httpResponse[r].status = 401
    /\ httpResponse[r].required_headers = <<"X-Miro-Access-Token">>

(***************************************************************************)
(* Concurrent requests                                                     *)
(***************************************************************************)

\* The hosting runtime runs fetch for several inbound requests at once: at
\* every await of one request a step of another may run. The tools and the
\* remote answers explored under interleaving.
ConcurrentTools ==
  {Tool("miro_list_boards"), Tool("miro_create_sticky_note"), Tool("miro_test_connection")}

ConcurrentResponses ==
  {RemoteResponse(200, NoRetryHeader, JsonValue("obj", UNDEF, UNDEF)),
   RemoteResponse(401, NoRetryHeader, JsonValue("obj", "remote says no", UNDEF)),
   RemoteResponse(429, RetryHeader(<<"3", "0">>), JsonValue("invalid", UNDEF, UNDEF))}

\* A worker that keeps the client of the latest request in a variable of the
\* module, which every request in progress then uses.
FetchConcurrent_sharedClient(r) ==
  /\ pc[r] = "idle"
  /\ \E header \in TokenHeaders :
       LET credentials == parseTenantCredentials(header)
           serve == validateCredentials(credentials)
       IN /\ inbound' = [inbound EXCEPT ![r] =
                           [via |-> "http", path |-> "/mcp", method |-> "POST",
                            header |-> header]]
          /\ client' = [q \in Reqs |->
                          IF serve /\ (q = r \/ client[q].built)
                          THEN createMiroClient(credentials)
                          ELSE client[q]]
          /\ httpResponse' = [httpResponse EXCEPT ![r] =
                                IF serve THEN NoHttpResponse ELSE StaticResponse("mcp")]
          /\ pc' = [pc EXCEPT ![r] = IF serve THEN "serving" ELSE "done"]
  /\ UNCHANGED <<invocation, calls, inflight, response, outcome, result, envelope>>
  /\ UNCHANGED <<remote, server>>

\* fetch(request) for a POST /mcp, whatever the other requests are doing: the
\* credentials, the server and the client are locals of this call.
FetchConcurrent(r) ==
  /\ pc[r] = "idle"
  /\ \E header \in TokenHeaders :
       LET credentials == parseTenantCredentials(header)
           serve == validateCredentials(credentials)
       IN /\ inbound' = [inbound EXCEPT ![r] =
                           [via |-> "http", path |-> "/mcp", method |-> "POST",
                            header |-> header]]
          /\ client' = [client EXCEPT ![r] =
                          IF serve THEN createMiroClient(credentials) ELSE NoClient]
          /\ httpResponse' = [httpResponse EXCEPT ![r] =
                                IF serve THEN NoHttpResponse ELSE StaticResponse("mcp")]
          /\ pc' = [pc EXCEPT ![r] = IF serve THEN "serving" ELSE "done"]
  /\ UNCHANGED <<invocation, calls, inflight, response, outcome, result, envelope>>
  /\ UNCHANGED <<remote, server>>

\* The MCP handler of request r dispatches to a handler registered on r's server.
CallToolConcurrent(r) ==
  /\ pc[r] = "serving"
  /\ \E tool \in ConcurrentTools :
       \E format \in Formats(tool) :
         invocation' = [invocation EXCEPT ![r] =
                          [tool |-> tool.name, plan |-> ToolCalls(tool), step |-> 1,
                           format |-> format]]
  /\ pc' = [pc EXCEPT ![r] = "calling"]
  /\ UNCHANGED <<inbound, httpResponse, client, calls, inflight, response, outcome,
                 result, envelope>>
  /\ UNCHANGED <<remote, server>>

\* The remote service answers r's call, in any order with respect to the others.
RemoteRespondConcurrent(r) ==
  /\ pc[r] = "awaiting"
  /\ \E resp \in ConcurrentResponses :
       /\ response' = [response EXCEPT ![r] = resp]
       /\ Settle(r, Classify(resp))
  /\ inflight' = [inflight EXCEPT ![r] = inflight[r] - 1]
  /\ UNCHANGED <<inbound, client, calls>>
  /\ UNCHANGED <<remote, server>>

NextConcurrent ==
  \E r \in Reqs :
    \/ FetchConcurrent(r)
    \/ CallToolConcurrent(r)
    \/ ClientCall(r)
    \/ RemoteRespondConcurrent(r)
    \/ TransportFault(r)
    \/ Finish(r)

SpecConcurrent == Init /\ [][NextConcurrent]_vars

\* C13: under every interleaving of the requests in progress, the client of
\* request r holds the token of r's own header and every remote call made
\* for r carries exactly that token.
C13_TenantIsolation ==
  \A r \in Reqs :
    /\ client[r].built =>
         client[r].credentials.accessToken = inbound[r].header.value
    /\ \A i \in 1..Len(calls[r]) :
         calls[r][i].headers.Authorization = "Bearer " \o inbound[r].header.value

\* C13 witness: two requests of different tenants have a call in flight at
\* the same time, the one that arrived first having called last.
C13_Witness ==
  \E r, q \in Reqs :
    /\ r # q
    /\ inflight[r] = 1 /\ inflight[q] = 1
    /\ inbound[r].header.value = "tokA"
    /\ inbound[q].header.value = "tokB"
    /\ calls[r][1].headers.Authorization = "Bearer tokA"
    /\ calls[q][1].headers.Authorization = "Bearer tokB"

(***************************************************************************)
(* Tools with their arguments: query strings                               *)
(***************************************************************************)

\* The serialisation of one character by URLSearchParams.toString()
\* (application/x-www-form-urlencoded): letters, digits, "*", "-", "." and
\* "_" stay, a space becomes "+", any other character its %XX code.
EncodeChar(c) ==
  CASE c = " " -> "+"
    [] c = "&" -> "%26"
    [] c = "=" -> "%3D"
    [] c = "+" -> "%2B"
    [] c = "%" -> "%25"
    [] c = "/" -> "%2F"
    [] c = "?" -> "%3F"
    [] c = "#" -> "%23"
    [] OTHER -> c

RECURSIVE Encode(_)
Encode(s) ==
  IF s = "" THEN "" ELSE EncodeChar(CharAt(s, 1)) \o Encode(SubSeq(s, 2, Len(s)))

\* One parameter handed to buildQueryString.
Param(key, value) == [key |-> key, value |-> value]

\* A query string put together by plain concatenation, nothing encoded.
buildQueryString_unencoded(params) ==
  LET given == SelectSeq(params, LAMBDA p : p.value.t # "absent")
      str == Join([i \in 1..Len(given) |->
                     given[i].key \o "=" \o JsString(given[i].value)], "&")
  IN IF str # "" THEN "?" \o str ELSE ""

\* buildQueryString(params): every parameter that is not undefined is set,
\* as String(value), in the order of the object's keys.
buildQueryString(params) ==
  LET given == SelectSeq(params, LAMBDA p : p.value.t # "absent")
      str == Join([i \in 1..Len(given) |->
                     Encode(given[i].key) \o "=" \o Encode(JsString(given[i].value))], "&")
  IN IF str # "" THEN "?" \o str ELSE ""

(***************************************************************************)
(* The remote service's reading of a URL                                   *)
(***************************************************************************)

RECURSIVE IndexOf(_, _, _)
\* The first position from i on at which s has the character c, else 0.
IndexOf(s, c, i) ==
  IF i > Len(s) THEN 0
  ELSE IF CharAt(s, i) = c THEN i
  ELSE IndexOf(s, c, i + 1)

RECURSIVE Split(_, _)
\* s cut at every c.
Split(s, c) ==
  LET i == IndexOf(s, c, 1)
  IN IF i = 0 THEN <<s>>
     ELSE <<SubSeq(s, 1, i - 1)>> \o Split(SubSeq(s, i + 1, Len(s)), c)

\* The character of a %XX code.
DecodeCode(code) ==
  CASE code = "%26" -> "&"
    [] code = "%3D" -> "="
    [] code = "%2B" -> "+"
    [] code = "%25" -> "%"
    [] code = "%2F" -> "/"
    [] code = "%3F" -> "?"
    [] code = "%23" -> "#"
    [] OTHER -> code

RECURSIVE Decode(_)
\* The value a form-urlencoded string stands for.
Decode(s) ==
  IF s = "" THEN ""
  ELSE IF CharAt(s, 1) = "+" THEN " " \o Decode(SubSeq(s, 2, Len(s)))
  ELSE IF CharAt(s, 1) = "%" /\ Len(s) >= 3
  THEN DecodeCode(SubSeq(s, 1, 3)) \o Decode(SubSeq(s, 4, Len(s)))
  ELSE CharAt(s, 1) \o Decode(SubSeq(s, 2, Len(s)))

\* The path of a URL and its query, cut at the first "?".
UrlPath(url) ==
  LET i == IndexOf(url, "?", 1) IN IF i = 0 THEN url ELSE SubSeq(url, 1, i - 1)
UrlQuery(url) ==
  LET i == IndexOf(url, "?", 1) IN IF i = 0 THEN "" ELSE SubSeq(url, i + 1, Len(url))

\* The parameters the remote service finds in a URL, in order.
QueryParams(url) ==
  LET parts == SelectSeq(Split(UrlQuery(url), "&"), LAMBDA p : p # "")
  IN [i \in 1..Len(parts) |->
        LET e == IndexOf(parts[i], "=", 1)
        IN IF e = 0 THEN Param(Decode(parts[i]), JString(""))
           ELSE Param(Decode(SubSeq(parts[i], 1, e - 1)),
                      JString(Decode(SubSeq(parts[i], e + 1, Len(parts[i])))))]

\* The value of the parameter key as the remote service receives it, if any.
QueryParam(url, key) ==
  LET ps == SelectSeq(QueryParams(url), LAMBDA p : p.key = key)
  IN IF ps = << >> THEN Absent ELSE ps[1].value

(***************************************************************************)
(* Tools with their arguments: input schemas                               *)
(***************************************************************************)

\* The names of the arguments the tools modelled with their arguments declare.
ArgNames ==
  {"boardId", "frameId", "tagId", "limit", "cursor", "teamId", "query", "sort",
   "type", "format", "content", "x", "y", "shape", "fillColor", "width", "height",
   "itemId", "title", "description", "dueDate", "assigneeId", "status", "fontSize",
   "color"}

\* A zod schema of one argument: its type, whether it is required, optional
\* or has a default, and for z.enum its values, for z.number() its int()
\* and min()/max() checks.
Z(type, mode, values, int, bounded, min, max, default) ==
  [type |-> type, mode |-> mode, values |-> values, int |-> int, bounded |-> bounded,
   min |-> min, max |-> max, default |-> default]

\* An argument the schema does not declare: z.object strips it.
zNone == Z("none", "optional", {}, FALSE, FALSE, 0, 0, Absent)
\* z.string()
zString == Z("string", "required", {}, FALSE, FALSE, 0, 0, Absent)
\* z.string().optional()
zOptString == Z("string", "optional", {}, FALSE, FALSE, 0, 0, Absent)
\* A limit declared without its min(1) and max(100).
zLimit_unbounded == Z("number", "default", {}, TRUE, FALSE, 0, 0, JNumber(20))
\* z.number().int().min(1).max(100).default(20)
zLimit == Z("number", "default", {}, TRUE, TRUE, 1, 100, JNumber(20))
\* z.enum(['json', 'markdown']).default('json')
zFormat == Z("enum", "default", {"json", "markdown"}, FALSE, FALSE, 0, 0, JString("json"))
\* z.enum([...]).optional()
zOptEnum(values) == Z("enum", "optional", values, FALSE, FALSE, 0, 0, Absent)
\* z.number().default(0)
zNumberDefault0 == Z("number", "default", {}, FALSE, FALSE, 0, 0, JNumber(0))
\* z.number().optional()
zOptNumber == Z("number", "optional", {}, FALSE, FALSE, 0, 0, Absent)

\* The schema object of a tool: the declared arguments, every other stripped.
Declared(shape) == [k \in ArgNames |-> IF k \in DOMAIN shape THEN shape[k] ELSE zNone]

SortValues == {"default", "last_modified", "last_opened", "last_created", "alphabetically"}
ItemTypes ==
  {"sticky_note", "shape", "text", "card", "image", "frame", "connector", "embed",
   "app_card", "document"}

\* The schema each server.tool(...) call declares.
inputSchema(name) ==
  CASE name = "miro_list_boards" ->
         Declared([limit |-> zLimit, cursor |-> zOptString, teamId |-> zOptString,
                   query |-> zOptString, sort |-> zOptEnum(SortValues),
                   format |-> zFormat])
    [] name = "miro_list_items" ->
         Declared([boardId |-> zString, limit |-> zLimit, cursor |-> zOptString,
                   type |-> zOptEnum(ItemTypes), format |-> zFormat])
    [] name \in {"miro_list_board_members", "miro_list_connectors", "miro_list_tags"} ->
         Declared([boardId |-> zString, limit |-> zLimit, cursor |-> zOptString,
                   format |-> zFormat])
    [] name = "miro_get_frame_items" ->
         Declared([boardId |-> zString, frameId |-> zString, limit |-> zLimit,
                   cursor |-> zOptString, format |-> zFormat])
    [] name = "miro_get_items_by_tag" ->
         Declared([boardId |-> zString, tagId |-> zString, limit |-> zLimit,
                   cursor |-> zOptString, format |-> zFormat])
    [] name = "miro_create_sticky_note" ->
         Declared([boardId |-> zString, content |-> zString, x |-> zNumberDefault0,
                   y |-> zNumberDefault0, shape |-> zOptEnum({"square", "rectangle"}),
                   fillColor |-> zOptString, width |-> zOptNumber,
                   height |-> zOptNumber])
    [] name = "miro_update_sticky_note" ->
         Declared([boardId |-> zString, itemId |-> zString, content |-> zOptString,
                   x |-> zOptNumber, y |-> zOptNumber, fillColor |-> zOptString])
    [] name = "miro_update_shape" ->
         Declared([boardId |-> zString, itemId |-> zString, content |-> zOptString,
                   x |-> zOptNumber, y |-> zOptNumber, width |-> zOptNumber,
                   height |-> zOptNumber, fillColor |-> zOptString])
    [] name = "miro_update_text" ->
         Declared([boardId |-> zString, itemId |-> zString, content |-> zOptString,
                   x |-> zOptNumber, y |-> zOptNumber, fontSize |-> zOptString,
                   color |-> zOptString])
    [] name = "miro_update_card" ->
         Declared([boardId |-> zString, itemId |-> zString, title |-> zOptString,
                   description |-> zOptString, x |-> zOptNumber, y |-> zOptNumber,
                   dueDate |-> zOptString, assigneeId |-> zOptString])
    [] name = "miro_update_frame" ->
         Declared([boardId |-> zString, itemId |-> zString, title |-> zOptString,
                   x |-> zOptNumber, y |-> zOptNumber, width |-> zOptNumber,
                   height |-> zOptNumber, fillColor |-> zOptString])
    [] name = "miro_update_image" ->
         Declared([boardId |-> zString, itemId |-> zString, x |-> zOptNumber,
                   y |-> zOptNumber, width |-> zOptNumber, height |-> zOptNumber,
                   title |-> zOptString])
    [] name = "miro_update_embed" ->
         Declared([boardId |-> zString, itemId |-> zString, x |-> zOptNumber,
                   y |-> zOptNumber, width |-> zOptNumber, height |-> zOptNumber])
    [] name = "miro_update_app_card" ->
         Declared([boardId |-> zString, itemId |-> zString, title |-> zOptString,
                   description |-> zOptString, x |-> zOptNumber, y |-> zOptNumber,
                   status |-> zOptEnum({"disconnected", "connected", "disabled"})])

\* Whether the schema z accepts the value v: undefined only where the
\* argument is optional or has a default, null nowhere, and else a value of
\* the declared type that passes the declared checks.
Accept(z, v) ==
  IF z.type = "none" THEN TRUE
  ELSE IF v.t = "absent" THEN z.mode # "required"
  ELSE IF z.type = "string" THEN v.t = "string"
  ELSE IF z.type = "enum" THEN v.t = "string" /\ v.s \in z.values
  ELSE /\ v.t = "number"
       /\ (z.int => v.whole)
       /\ (z.bounded =>
             /\ v.n >= z.min
             /\ (IF v.whole THEN v.n <= z.max ELSE v.n < z.max))

\* The value the handler receives for an accepted argument.
Parse(z, v) ==
  IF z.type = "none" THEN Absent
  ELSE IF v.t = "absent" /\ z.mode = "default" THEN z.default
  ELSE v

\* The arguments of a call pass the tool's schema; what the handler receives.
ValidArguments(name, raw) == \A k \in ArgNames : Accept(inputSchema(name)[k], raw[k])
ParsedArguments(name, raw) == [k \in ArgNames |-> Parse(inputSchema(name)[k], raw[k])]

(***************************************************************************)
(* Tools with their arguments: client methods and handlers                 *)
(***************************************************************************)

\* The JSON body of a call: the StickyNoteCreateInput a handler built, as
\* JSON.stringify writes it (a member that is undefined is left out).
NoMember == [present |-> FALSE, x |-> Absent, y |-> Absent, fillColor |-> Absent,
             width |-> Absent, height |-> Absent]
NoBody ==
  [present |-> FALSE, data |-> [content |-> Absent, shape |-> Absent],
   position |-> NoMember, style |-> NoMember, geometry |-> NoMember]

\* this.request(endpoint, { method, body }): what a client method asks for.
Request(method, endpoint, body) == [method |-> method, endpoint |-> endpoint, body |-> body]

\* listBoards(params)
listBoards(params) ==
  Request("GET",
          "/boards" \o buildQueryString(<<Param("limit", params.limit),
                                          Param("cursor", params.cursor),
                                          Param("team_id", params.teamId),
                                          Param("query", params.query),
                                          Param("sort", params.sort)>>),
          NoBody)

\* listBoardMembers(boardId, params)
listBoardMembers(boardId, params) ==
  Request("GET",
          "/boards/" \o JsString(boardId) \o "/members"
            \o buildQueryString(<<Param("limit", params.limit),
                                  Param("cursor", params.cursor)>>),
          NoBody)

\* listItems(boardId, params)
listItems(boardId, params) ==
  Request("GET",
          "/boards/" \o JsString(boardId) \o "/items"
            \o buildQueryString(<<Param("limit", params.limit),
                                  Param("cursor", params.cursor),
                                  Param("type", params.type)>>),
          NoBody)

\* getFrameItems(boardId, frameId, params)
getFrameItems(boardId, frameId, params) ==
  Request("GET",
          "/boards/" \o JsString(boardId) \o "/frames/" \o JsString(frameId) \o "/items"
            \o buildQueryString(<<Param("limit", params.limit),
                                  Param("cursor", params.cursor)>>),
          NoBody)

\* listConnectors(boardId, params)
listConnectors(boardId, params) ==
  Request("GET",
          "/boards/" \o JsString(boardId) \o "/connectors"
            \o buildQueryString(<<Param("limit", params.limit),
                                  Param("cursor", params.cursor)>>),
          NoBody)

\* listTags(boardId, params)
listTags(boardId, params) ==
  Request("GET",
          "/boards/" \o JsString(boardId) \o "/tags"
            \o buildQueryString(<<Param("limit", params.limit),
                                  Param("cursor", params.cursor)>>),
          NoBody)

\* getItemsByTag(boardId, tagId, params)
getItemsByTag(boardId, tagId, params) ==
  Request("GET",
          "/boards/" \o JsString(boardId) \o "/tags/" \o JsString(tagId) \o "/items"
            \o buildQueryString(<<Param("limit", params.limit),
                                  Param("cursor", params.cursor)>>),
          NoBody)

\* createStickyNote(boardId, input)
createStickyNote(boardId, input) ==
  Request("POST", "/boards/" \o JsString(boardId) \o "/sticky_notes", input)

\* A handler that sends the geometry member whether or not a size was given.
StickyNoteInput_geometryAlways(a) ==
  [present |-> TRUE,
   data |-> [content |-> a.content,
             shape |-> IF JsTruthy(a.shape) THEN a.shape ELSE Absent],
   position |-> [NoMember EXCEPT !.present = TRUE, !.x = a.x, !.y = a.y],
   style |-> IF JsTruthy(a.fillColor)
             THEN [NoMember EXCEPT !.present = TRUE, !.fillColor = a.fillColor]
             ELSE NoMember,
   geometry |-> [NoMember EXCEPT !.present = TRUE, !.width = a.width,
                                 !.height = a.height]]

\* The input object the miro_create_sticky_note handler builds:
\* { data: { content }, position: { x, y } }, then shape, style and geometry
\* for the optional arguments that are truthy.
StickyNoteInput(a) ==
  [present |-> TRUE,
   data |-> [content |-> a.content,
             shape |-> IF JsTruthy(a.shape) THEN a.shape ELSE Absent],
   position |-> [NoMember EXCEPT !.present = TRUE, !.x = a.x, !.y = a.y],
   style |-> IF JsTruthy(a.fillColor)
             THEN [NoMember EXCEPT !.present = TRUE, !.fillColor = a.fillColor]
             ELSE NoMember,
   geometry |-> IF JsTruthy(a.width) \/ JsTruthy(a.height)
                THEN [NoMember EXCEPT !.present = TRUE, !.width = a.width,
                                      !.height = a.height]
                ELSE NoMember]

(***************************************************************************)
(* Tools with their arguments: the update tools                            *)
(***************************************************************************)

\* A member of the input object of an update: the keys the handler set in
\* it; JSON.stringify leaves out the member that was never set and the key
\* whose value is undefined.
MemberKeys ==
  {"x", "y", "width", "height", "fillColor", "fontSize", "color", "content", "title",
   "description", "dueDate", "assigneeId", "status"}
NoUpdateMember == [present |-> FALSE, keys |-> [k \in MemberKeys |-> Absent]]

\* { k1: a.k1, ... } for the keys in set.
MemberOf(set, a) ==
  [present |-> TRUE, keys |-> [k \in MemberKeys |-> IF k \in set THEN a[k] ELSE Absent]]

\* input.m = {} followed by one assignment for each truthy argument in set,
\* done when one of them is truthy.
TruthyMember(set, a) ==
  IF \E k \in set : JsTruthy(a[k])
  THEN MemberOf({k \in set : JsTruthy(a[k])}, a)
  ELSE NoUpdateMember

\* if (x !== undefined && y !== undefined) input.position = { x, y }
PositionMember(a) ==
  IF a.x.t # "absent" /\ a.y.t # "absent" THEN MemberOf({"x", "y"}, a) ELSE NoUpdateMember

\* if (width !== undefined || height !== undefined)
\*   input.geometry = { width, height }
GeometryMember(a) ==
  IF a.width.t # "absent" \/ a.height.t # "absent"
  THEN MemberOf({"width", "height"}, a)
  ELSE NoUpdateMember

\* The input object of an update, as JSON.stringify writes it.
UpdateInput(data, position, style, geometry) ==
  [present |-> TRUE, data |-> data, position |-> position, style |-> style,
   geometry |-> geometry]

\* A sticky note update that sets position when either coordinate is given.
StickyNoteUpdateInput_eitherCoordinate(a) ==
  UpdateInput(TruthyMember({"content"}, a),
              IF a.x.t # "absent" \/ a.y.t # "absent"
              THEN MemberOf({"x", "y"}, a)
              ELSE NoUpdateMember,
              TruthyMember({"fillColor"}, a), NoUpdateMember)

\* The input the miro_update_sticky_note handler builds.
StickyNoteUpdateInput(a) ==
  UpdateInput(TruthyMember({"content"}, a), PositionMember(a),
              TruthyMember({"fillColor"}, a), NoUpdateMember)

\* The input the miro_update_shape handler builds.
ShapeUpdateInput(a) ==
  UpdateInput(TruthyMember({"content"}, a), PositionMember(a),
              TruthyMember({"fillColor"}, a), GeometryMember(a))

\* The input the miro_update_text handler builds.
TextUpdateInput(a) ==
  UpdateInput(TruthyMember({"content"}, a), PositionMember(a),
              TruthyMember({"fontSize", "color"}, a), NoUpdateMember)

\* The input the miro_update_card handler builds.
CardUpdateInput(a) ==
  UpdateInput(TruthyMember({"title", "description", "dueDate", "assigneeId"}, a),
              PositionMember(a), NoUpdateMember, NoUpdateMember)

\* The input the miro_update_frame handler builds.
FrameUpdateInput(a) ==
  UpdateInput(TruthyMember({"title"}, a), PositionMember(a),
              TruthyMember({"fillColor"}, a), GeometryMember(a))

\* The input the miro_update_image handler builds.
ImageUpdateInput(a) ==
  UpdateInput(TruthyMember({"title"}, a), PositionMember(a), NoUpdateMember,
              GeometryMember(a))

\* The input the miro_update_embed handler builds.
EmbedUpdateInput(a) ==
  UpdateInput(NoUpdateMember, PositionMember(a), NoUpdateMember, GeometryMember(a))

\* The input the miro_update_app_card handler builds.
AppCardUpdateInput(a) ==
  UpdateInput(TruthyMember({"title", "description", "status"}, a), PositionMember(a),
              NoUpdateMember, NoUpdateMember)

\* this.request(`/boards/${boardId}/<collection>/${itemId}`,
\*              { method: 'PATCH', body: JSON.stringify(input) })
Patch(collection, boardId, itemId, input) ==
  Request("PATCH",
          "/boards/" \o JsString(boardId) \o "/" \o collection \o "/" \o JsString(itemId),
          input)

updateStickyNote(boardId, itemId, input) == Patch("sticky_notes", boardId, itemId, input)
updateShape(boardId, itemId, input) == Patch("shapes", boardId, itemId, input)
updateText(boardId, itemId, input) == Patch("texts", boardId, itemId, input)
updateCard(boardId, itemId, input) == Patch("cards", boardId, itemId, input)
updateImage(boardId, itemId, input) == Patch("images", boardId, itemId, input)
updateFrame(boardId, itemId, input) == Patch("frames", boardId, itemId, input)
updateEmbed(boardId, itemId, input) == Patch("embeds", boardId, itemId, input)
updateAppCard(boardId, itemId, input) == Patch("app_cards", boardId, itemId, input)

\* The client call each handler makes with the arguments it received.
HandlerRequest(name, a) ==
  CASE name = "miro_list_boards" ->
         listBoards([limit |-> a.limit, cursor |-> a.cursor, teamId |-> a.teamId,
                     query |-> a.query, sort |-> a.sort])
    [] name = "miro_list_board_members" ->
         listBoardMembers(a.boardId, [limit |-> a.limit, cursor |-> a.cursor])
    [] name = "miro_list_items" ->
         listItems(a.boardId, [limit |-> a.limit, cursor |-> a.cursor, type |-> a.type])
    [] name = "miro_get_frame_items" ->
         getFrameItems(a.boardId, a.frameId, [limit |-> a.limit, cursor |-> a.cursor])
    [] name = "miro_list_connectors" ->
         listConnectors(a.boardId, [limit |-> a.limit, cursor |-> a.cursor])
    [] name = "miro_list_tags" ->
         listTags(a.boardId, [limit |-> a.limit, cursor |-> a.cursor])
    [] name = "miro_get_items_by_tag" ->
         getItemsByTag(a.boardId, a.tagId, [limit |-> a.limit, cursor |-> a.cursor])
    [] name = "miro_create_sticky_note" ->
         createStickyNote(a.boardId, StickyNoteInput(a))
    [] name = "miro_update_sticky_note" ->
         updateStickyNote(a.boardId, a.itemId, StickyNoteUpdateInput(a))
    [] name = "miro_update_shape" ->
         updateShape(a.boardId, a.itemId, ShapeUpdateInput(a))
    [] name = "miro_update_text" ->
         updateText(a.boardId, a.itemId, TextUpdateInput(a))
    [] name = "miro_update_card" ->
         updateCard(a.boardId, a.itemId, CardUpdateInput(a))
    [] name = "miro_update_frame" ->
         updateFrame(a.boardId, a.itemId, FrameUpdateInput(a))
    [] name = "miro_update_image" ->
         updateImage(a.boardId, a.itemId, ImageUpdateInput(a))
    [] name = "miro_update_embed" ->
         updateEmbed(a.boardId, a.itemId, EmbedUpdateInput(a))
    [] name = "miro_update_app_card" ->
         updateAppCard(a.boardId, a.itemId, AppCardUpdateInput(a))

\* A helper that lets the type of the caller's params win: { type, ...params }.
TypedList_callerWins(name, boardId, params) ==
  listItems(boardId,
            IF params.type.t = "absent"
            THEN [params EXCEPT !.type = JString(ClientMethod(name).fixedType)]
            ELSE params)

\* listStickyNotes, listShapes, listTexts, listCards, listFrames (boardId,
\* params): this.listItems(boardId, { ...params, type: <the helper's type> }).
TypedList(name, boardId, params) ==
  listItems(boardId, [params EXCEPT !.type = JString(ClientMethod(name).fixedType)])

\* The request of a list method of the client that a caller invokes itself.
MethodRequest(name, a) ==
  LET params == [limit |-> a.limit, cursor |-> a.cursor, type |-> a.type]
  IN IF name = "listItems" THEN listItems(a.boardId, params)
     ELSE TypedList(name, a.boardId, params)

\* The call request() hands to fetch for a Request of a client method.
OutgoingRequest(credentials, req) ==
  [method |-> req.method, url |-> API_BASE_URL \o req.endpoint,
   hasBody |-> req.body.present, body |-> req.body,
   headers |-> MergeHeaders(getAuthHeaders(credentials), NoHeaders)]

(***************************************************************************)
(* Tools with their arguments: the calls and the answers explored          *)
(***************************************************************************)

\* The most entities a page of the remote service holds.
MaxItems == 3

\* The list tools and miro_create_sticky_note.
ListTools ==
  {Tool(n) : n \in {"miro_list_boards", "miro_list_board_members", "miro_list_items",
                    "miro_get_frame_items", "miro_list_connectors", "miro_list_tags",
                    "miro_get_items_by_tag"}}
\* The update tools that take optional x and y.
UpdateTools ==
  {Tool(n) : n \in {"miro_update_sticky_note", "miro_update_shape", "miro_update_text",
                    "miro_update_card", "miro_update_frame", "miro_update_image",
                    "miro_update_embed", "miro_update_app_card"}}
ArgumentTools == ListTools \cup {Tool("miro_create_sticky_note")} \cup UpdateTools

\* The cursors the remote service mints; a caller hands one back as it got it.
Cursors == {"", "c1", "a&b =1+%"}

NoArguments == [k \in ArgNames |-> Absent]

\* The values a caller may send for limit, cursor and format: also values
\* the schema has to reject.
LimitInputs ==
  {Absent, JNull, JNumber(0), JNumber(1), JNumber(100), JNumber(101), JFraction(5),
   JString("5")}
CursorInputs == {Absent} \cup {JString(c) : c \in Cursors}
FormatInputs == {Absent, JString("json"), JString("markdown"), JString("xml")}

\* The arguments of a list tool on top of the identifiers and filters in base.
ListInputs(base) ==
  {[base EXCEPT !["limit"] = l, !["cursor"] = c, !["format"] = f] :
     l \in LimitInputs, c \in CursorInputs, f \in FormatInputs}

\* The arguments of a call of an update tool: either coordinate given or
\* not, zero among the values, a text and a size given or not; an argument
\* the tool does not declare is stripped.
UpdateInputs ==
  {[NoArguments EXCEPT !["boardId"] = JString("b1"), !["itemId"] = JString("i1"),
                       !["x"] = x, !["y"] = y, !["content"] = t, !["title"] = t,
                       !["width"] = w] :
     x \in {Absent, JNumber(0), JNumber(10), JString("10")},
     y \in {Absent, JNumber(0), JNumber(20)},
     t \in {Absent, JString("new")},
     w \in {Absent, JNumber(200)}}

\* The arguments of a call of each tool, as the caller sent them.
ToolInputs(name) ==
  CASE name = "miro_list_boards" ->
         ListInputs(NoArguments)
           \cup ListInputs([NoArguments EXCEPT !["teamId"] = JString("t1"),
                                               !["query"] = JString("road map"),
                                               !["sort"] = JString("alphabetically")])
    [] name = "miro_list_items" ->
         UNION {ListInputs([NoArguments EXCEPT !["boardId"] = b, !["type"] = t]) :
                  b \in {JString("b1")}, t \in {Absent, JString("shape"), JString("note")}}
    [] name \in {"miro_list_board_members", "miro_list_connectors", "miro_list_tags"} ->
         UNION {ListInputs([NoArguments EXCEPT !["boardId"] = b]) :
                  b \in {JString("b1"), Absent}}
    [] name = "miro_get_frame_items" ->
         ListInputs([NoArguments EXCEPT !["boardId"] = JString("b1"),
                                        !["frameId"] = JString("f1")])
    [] name = "miro_get_items_by_tag" ->
         ListInputs([NoArguments EXCEPT !["boardId"] = JString("b1"),
                                        !["tagId"] = JString("t9")])
    [] name = "miro_create_sticky_note" ->
         {[NoArguments EXCEPT !["boardId"] = JString("b1"), !["content"] = c,
                              !["x"] = x, !["y"] = y, !["shape"] = s,
                              !["fillColor"] = f, !["width"] = w] :
            c \in {JString("hello"), Absent},
            x \in {Absent, JNumber(10), JString("10")},
            y \in {Absent, JNumber(20)},
            s \in {Absent, JString("square")},
            f \in {Absent, JString(""), JString("yellow")},
            w \in {Absent, JNumber(0), JNumber(200)}}
    [] name \in {t.name : t \in UpdateTools} -> UpdateInputs

\* The first k entities.
Entities(k) == [i \in 1..k |-> Entity(i)]

\* The pages of k entities a list endpoint answers with: a size field that
\* is their number, another number or missing, with or without total, with
\* or without cursor.
PagesOf(k) ==
  {Page(Entities(k), size, total, cursor) :
     size \in {JNumber(k), JNumber(k + 1), Absent},
     total \in {Absent, JNumber(7)},
     cursor \in {Absent} \cup {JString(c) : c \in Cursors}}

\* The pages of any number of entities up to MaxItems.
Pages == UNION {PagesOf(k) : k \in 0..MaxItems}

\* The sticky note the remote service created.
CreatedEntity(id) ==
  [kind |-> "obj", message |-> UNDEF, error |-> UNDEF, connected |-> UNDEF, id |-> id]

\* The answers of the remote service to the call of a tool.
ResponsesFor(tool) ==
  (IF tool \in ListTools
   THEN {RemoteResponse(200, NoRetryHeader, p) : p \in Pages}
          \cup {RemoteResponse(200, NoRetryHeader,
                               [Page(<< >>, Absent, Absent, Absent) EXCEPT !.data = NoArray])}
   ELSE {RemoteResponse(s, NoRetryHeader, CreatedEntity("note1")) : s \in {200, 201}})
    \cup {RemoteResponse(200, NoRetryHeader, JsonValue("obj", UNDEF, UNDEF)),
          RemoteResponse(200, NoRetryHeader, JsonValue("invalid", UNDEF, UNDEF)),
          RemoteResponse(204, NoRetryHeader, JsonValue("invalid", UNDEF, UNDEF)),
          RemoteResponse(401, NoRetryHeader, JsonValue("invalid", UNDEF, UNDEF)),
          RemoteResponse(429, RetryHeader(<<"3", "0">>), JsonValue("invalid", UNDEF, UNDEF)),
          RemoteResponse(500, NoRetryHeader, JsonValue("obj", "remote says no", UNDEF))}

(***************************************************************************)
(* Tools with their arguments: the request                                 *)
(***************************************************************************)

\* The MCP server's answer to a call whose arguments fail the tool's schema.
InvalidParamsResponse ==
  [status |-> 200, kind |-> "invalid_params", contentType |-> "mcp",
   required_headers |-> << >>, tools |-> << >>]

\* fetch(request) for a POST /mcp of a tenant whose body is a tools/call of
\* one tool with its arguments.
FetchToolCall(r) ==
  /\ pc[r] = "idle"
  /\ Admit(r)
  /\ \E tool \in ArgumentTools :
       \E arguments \in ToolInputs(tool.name) :
         inbound' = [inbound EXCEPT ![r] =
                       [via |-> "http", path |-> "/mcp", method |-> "POST",
                        header |-> TokenHeader("tokA"), tool |-> tool.name,
                        arguments |-> arguments]]
  /\ client' = [client EXCEPT ![r] =
                  createMiroClient(parseTenantCredentials(TokenHeader("tokA")))]
  /\ pc' = [pc EXCEPT ![r] = "serving"]
  /\ UNCHANGED <<httpResponse, invocation, calls, inflight, response, outcome,
                 result, envelope>>
  /\ UNCHANGED <<remote, server>>

\* The MCP server checks the arguments against the schema the tool declared:
\* it answers invalid ones itself, and else enters the handler with the
\* parsed arguments.
ValidateAndCall(r) ==
  /\ pc[r] = "serving"
  /\ inbound[r].via = "http"
  /\ LET name == inbound[r].tool
         raw == inbound[r].arguments
         a == ParsedArguments(name, raw)
     IN IF ValidArguments(name, raw)
        THEN /\ invocation' = [invocation EXCEPT ![r] =
                                 [tool |-> name, plan |-> ToolCalls(Tool(name)),
                                  step |-> 1, format |-> a.format.s, args |-> a]]
             /\ pc' = [pc EXCEPT ![r] = "calling"]
             /\ UNCHANGED httpResponse
        ELSE /\ httpResponse' = [httpResponse EXCEPT ![r] = InvalidParamsResponse]
             /\ pc' = [pc EXCEPT ![r] = "done"]
             /\ UNCHANGED invocation
  /\ UNCHANGED <<inbound, client, calls, inflight, response, outcome, result, envelope>>
  /\ UNCHANGED <<remote, server>>

\* The client method called, by a handler or by a caller of its own, runs up
\* to its await: getAuthHeaders throws for a client without token, else the
\* call is handed to fetch.
ClientCallWithArguments(r) ==
  /\ pc[r] = "calling"
  /\ IF HasAccessToken(client[r].credentials)
     THEN /\ calls' = [calls EXCEPT ![r] =
                         Append(calls[r],
                                OutgoingRequest(client[r].credentials,
                                                IF invocation[r].tool # ""
                                                THEN HandlerRequest(invocation[r].tool,
                                                                    invocation[r].args)
                                                ELSE MethodRequest(CurrentMethod(r),
                                                                   invocation[r].args)))]
          /\ inflight' = [inflight EXCEPT ![r] = inflight[r] + 1]
          /\ pc' = [pc EXCEPT ![r] = "awaiting"]
          /\ UNCHANGED <<invocation, outcome, result, envelope, httpResponse>>
     ELSE /\ Settle(r, NoTokenFailure)
          /\ UNCHANGED <<calls, inflight>>
  /\ UNCHANGED <<inbound, client, response>>
  /\ UNCHANGED <<remote, server>>

\* The remote service answers the call; request() classifies the answer, the
\* client method returns and the handler renders the result.
RemoteRespondToTool(r) ==
  /\ pc[r] = "awaiting"
  /\ \E resp \in ResponsesFor(IF invocation[r].tool # "" THEN Tool(invocation[r].tool)
                              ELSE Tool("miro_list_items")) :
       /\ response' = [response EXCEPT ![r] = resp]
       /\ Settle(r, Classify(resp))
  /\ inflight' = [inflight EXCEPT ![r] = inflight[r] - 1]
  /\ UNCHANGED <<inbound, client, calls>>
  /\ UNCHANGED <<remote, server>>

\* The list methods of the client a caller of its own invokes, and the
\* params it passes (a type among them, which the typed helpers do not
\* declare).
ListMethods ==
  {"listItems"} \cup {m.name : m \in {c \in MiroClientImpl : c.fixedType # ""}}
MethodInputs ==
  {[NoArguments EXCEPT !["boardId"] = JString("b1"), !["limit"] = l,
                       !["cursor"] = c, !["type"] = t] :
     l \in {Absent, JNumber(50)}, c \in {Absent, JString("a&b =1+%")},
     t \in {Absent, JString("shape")}}

\* A direct caller invokes one list method of the client it built.
CallListMethod(r) ==
  /\ pc[r] = "serving"
  /\ inbound[r].via = "direct"
  /\ \E name \in ListMethods, a \in MethodInputs :
       invocation' = [invocation EXCEPT ![r] =
                        [tool |-> "", plan |-> <<name>>, step |-> 1, format |-> "",
                         args |-> a]]
  /\ pc' = [pc EXCEPT ![r] = "calling"]
  /\ UNCHANGED <<inbound, httpResponse, client, calls, inflight, response, outcome,
                 result, envelope, remote, server>>

NextArguments ==
  \E r \in Reqs :
    \/ FetchToolCall(r)
    \/ ValidateAndCall(r)
    \/ CreateClient(r)
    \/ CallListMethod(r)
    \/ ClientCallWithArguments(r)
    \/ RemoteRespondToTool(r)
    \/ TransportFault(r)
    \/ Finish(r)

SpecArguments == Init /\ [][NextArguments]_vars

(***************************************************************************)
(* Properties of the tools with their arguments                            *)
(***************************************************************************)

StartsWith(s, p) == Len(s) >= Len(p) /\ SubSeq(s, 1, Len(p)) = p
EndsWith(s, p) == Len(s) >= Len(p) /\ SubSeq(s, Len(s) - Len(p) + 1, Len(s)) = p

\* A call of a tool arrived for request r, with the arguments the caller sent.
ToolCallArrived(r) == inbound[r].via = "http" /\ "arguments" \in DOMAIN inbound[r]

\* A list tool returned the rendering of a paginated response for request r.
PageRendered(r) ==
  /\ ToolReturned(r)
  /\ Tool(invocation[r].tool) \in ListTools
  /\ ~result[r].threw
  /\ isPaginatedResponse(result[r].val)

RECURSIVE TextLines(_)
\* The lines of the text that joining parts with line feeds gives: a part
\* that holds a line feed is more than one line of the text.
TextLines(parts) ==
  IF parts = << >> THEN << >>
  ELSE Split(parts[1], "\n") \o TextLines(Tail(parts))

\* The lines of a markdown text: the position of the table's separator row
\* (0 without table), the number of data rows below it (the table goes on
\* to the first empty line), the next-cursor line.
SeparatorRow(parts) ==
  LET lines == TextLines(parts)
  IN IF \E i \in 1..Len(lines) : StartsWith(lines[i], "|---")
     THEN CHOOSE i \in 1..Len(lines) :
            /\ StartsWith(lines[i], "|---")
            /\ \A j \in 1..(i - 1) : ~StartsWith(lines[j], "|---")
     ELSE 0
DataRows(parts) ==
  LET lines == TextLines(parts)
      sep == SeparatorRow(parts)
  IN IF sep = 0 THEN 0
     ELSE Cardinality({i \in (sep + 1)..Len(lines) :
                         \A j \in (sep + 1)..i : lines[j] # ""})
HasTableLine(parts) ==
  \E i \in 1..Len(TextLines(parts)) : StartsWith(TextLines(parts)[i], "|")
HasCursorLine(parts) ==
  \E i \in 1..Len(TextLines(parts)) : StartsWith(TextLines(parts)[i], "**Next cursor:** ")
ReportsSize(parts, n) ==
  \E i \in 1..Len(TextLines(parts)) :
    EndsWith(TextLines(parts)[i], "**Showing:** " \o ToString(n))

\* C12: a call whose arguments violate the tool's schema is answered without
\* the handler being entered or a remote call made; a list tool reaches the
\* remote service only with limit omitted or a whole number in 1..100, and
\* with limit omitted the call carries limit=20 (else the limit given).
C12_SchemaBeforeRemoteCall ==
  \A r \in Reqs :
    ToolCallArrived(r) =>
      LET name == inbound[r].tool
          raw == inbound[r].arguments
      IN /\ ~ValidArguments(name, raw) =>
              /\ calls[r] = << >>
              /\ inflight[r] = 0
              /\ invocation[r] = NoInvocation
              /\ envelope[r] = NoEnvelope
         /\ (Tool(name) \in ListTools /\ calls[r] # << >>) =>
              /\ \/ raw.limit.t = "absent"
                 \/ /\ raw.limit.t = "number"
                    /\ raw.limit.whole
                    /\ raw.limit.n \in 1..100
              /\ QueryParam(calls[r][1].url, "limit") =
                   IF raw.limit.t = "absent" THEN JString("20")
                   ELSE JString(ToString(raw.limit.n))
              /\ raw.format.t = "absent" \/ raw.format.s \in {"json", "markdown"}
              /\ raw.cursor.t \in {"absent", "string"}

\* C12 witness: miro_list_tags called with limit 101 was answered by the
\* schema check, with no call made.
C12_Witness ==
  \E r \in Reqs :
    /\ ToolCallArrived(r)
    /\ inbound[r].tool = "miro_list_tags"
    /\ inbound[r].arguments.limit = JNumber(101)
    /\ inbound[r].arguments.boardId = JString("b1")
    /\ inbound[r].arguments.format = Absent
    /\ pc[r] = "done"
    /\ httpResponse[r] = InvalidParamsResponse
    /\ calls[r] = << >>

\* C16: for every list tool and both formats, the size the returned text
\* reports equals the number of entries the same text renders.
C16_SizeIsNumberOfEntries ==
  \A r \in Reqs :
    PageRendered(r) =>
      IF invocation[r].format = "markdown"
      THEN ReportsSize(EnvelopeText(r).parts,
                       IF SeparatorRow(EnvelopeText(r).parts) = 0 THEN 0
                       ELSE DataRows(EnvelopeText(r).parts))
      ELSE EnvelopeText(r).value.size = JNumber(Len(EnvelopeText(r).value.data.items))

\* C17: in markdown mode a page without entries is rendered with the "no
\* items" marker and without any table line, whatever the entity label.
C17_EmptyPageMarker ==
  \A r \in Reqs :
    (PageRendered(r) /\ invocation[r].format = "markdown"
       /\ Len(result[r].val.data.items) = 0) =>
      /\ Contains(EnvelopeText(r).parts, "_No items found._")
      /\ ~HasTableLine(EnvelopeText(r).parts)

\* C17 witness: miro_list_connectors, whose label has no table of its own,
\* rendered an empty page.
C17_Witness ==
  \E r \in Reqs :
    /\ PageRendered(r)
    /\ invocation[r].tool = "miro_list_connectors"
    /\ invocation[r].format = "markdown"
    /\ result[r].val.data.items = << >>
    /\ Contains(EnvelopeText(r).parts, "_No items found._")

\* C18: in markdown mode a page of n > 0 entries is rendered as a table with
\* exactly n data rows, and the next-cursor line is there exactly when the
\* remote response carried a cursor.
C18_RowsAndCursorLine ==
  \A r \in Reqs :
    (PageRendered(r) /\ invocation[r].format = "markdown"
       /\ Len(result[r].val.data.items) > 0) =>
      /\ SeparatorRow(EnvelopeText(r).parts) > 1
      /\ DataRows(EnvelopeText(r).parts) = Len(response[r].body.data.items)
      /\ HasCursorLine(EnvelopeText(r).parts) <=> response[r].body.cursor.t # "absent"

\* C19: the cursor a caller hands to a list tool, a value the remote service
\* minted, reaches the remote service as the value of the cursor parameter
\* unchanged, and without cursor argument the call has no cursor parameter.
C19_CursorRoundTrip ==
  \A r \in Reqs :
    (ToolCallArrived(r) /\ Tool(inbound[r].tool) \in ListTools) =>
      \A i \in 1..Len(calls[r]) :
        QueryParam(calls[r][i].url, "cursor") = inbound[r].arguments.cursor

\* C19 witness: a cursor with characters that a query string reserves is on
\* its way to the remote service.
C19_Witness ==
  \E r \in Reqs :
    /\ ToolCallArrived(r)
    /\ inbound[r].tool = "miro_list_items"
    /\ inbound[r].arguments.cursor = JString("a&b =1+%")
    /\ inflight[r] = 1
    /\ QueryParam(calls[r][1].url, "cursor") = JString("a&b =1+%")

\* miro_create_sticky_note was called for request r with boardId, content, x
\* and y and no other argument.
PlainStickyNoteCall(r) ==
  /\ ToolCallArrived(r)
  /\ inbound[r].tool = "miro_create_sticky_note"
  /\ inbound[r].arguments.boardId.t = "string"
  /\ inbound[r].arguments.content.t = "string"
  /\ inbound[r].arguments.x.t = "number"
  /\ inbound[r].arguments.y.t = "number"
  /\ \A k \in {"shape", "fillColor", "width", "height"} : inbound[r].arguments[k] = Absent

\* The one call the claim describes: a POST to the board's sticky_notes
\* path with the body { data: { content }, position: { x, y } }.
PlainStickyNotePosted(r) ==
  /\ Len(calls[r]) <= 1
  /\ pc[r] \in {"awaiting", "done"} => Len(calls[r]) = 1
  /\ \A i \in 1..Len(calls[r]) :
       /\ calls[r][i].method = "POST"
       /\ calls[r][i].url =
            API_BASE_URL \o "/boards/" \o inbound[r].arguments.boardId.s \o "/sticky_notes"
       /\ calls[r][i].hasBody
       /\ calls[r][i].body.data =
            [content |-> inbound[r].arguments.content, shape |-> Absent]
       /\ calls[r][i].body.position =
            [NoMember EXCEPT !.present = TRUE, !.x = inbound[r].arguments.x,
                             !.y = inbound[r].arguments.y]
       /\ ~calls[r][i].body.style.present
       /\ ~calls[r][i].body.geometry.present

\* C20: create sticky note with boardId b, content c, x and y makes exactly
\* one POST to /boards/b/sticky_notes with the body
\* {data:{content:c}, position:{x,y}}, and on a 2xx response returns a
\* success envelope that contains the created entity.
C20_CreateStickyNote ==
  \A r \in Reqs :
    PlainStickyNoteCall(r) =>
      /\ PlainStickyNotePosted(r)
      /\ (Answered(r) /\ response[r].status \in 200..299) =>
           /\ ToolReturned(r)
           /\ ~envelope[r].hasIsError
           /\ EnvelopeText(r).shape = "success"
           /\ EnvelopeText(r).value.kind = "obj"
           /\ EnvelopeText(r).value = response[r].body

\* C20 as amended: the same call, and a success envelope that contains the
\* created entity on a 2xx response whose body is a JSON document; on a 204
\* the success envelope has no entity, and a 2xx body that is no JSON gives
\* a failure envelope.
C20_CreateStickyNoteJsonBody ==
  \A r \in Reqs :
    PlainStickyNoteCall(r) =>
      /\ PlainStickyNotePosted(r)
      /\ (Answered(r) /\ response[r].status \in 200..299) =>
           /\ ToolReturned(r)
           /\ IF response[r].status = 204
              THEN /\ ~envelope[r].hasIsError
                   /\ EnvelopeText(r).shape = "success"
                   /\ EnvelopeText(r).value = Undefined
              ELSE IF response[r].body.kind = "invalid"
              THEN envelope[r].hasIsError /\ envelope[r].isError
              ELSE /\ ~envelope[r].hasIsError
                   /\ EnvelopeText(r).shape = "success"
                   /\ EnvelopeText(r).value = response[r].body

\* C20 witness: content "hello" at (10, 20) on board b1 was posted, the
\* remote service answered 201 with the note, and the envelope holds it.
C20_Witness ==
  \E r \in Reqs :
    /\ PlainStickyNoteCall(r)
    /\ inbound[r].arguments.content = JString("hello")
    /\ inbound[r].arguments.x = JNumber(10)
    /\ inbound[r].arguments.y = JNumber(20)
    /\ ToolReturned(r)
    /\ Len(calls[r]) = 1
    /\ calls[r][1].url = "https://api.miro.com/v2/boards/b1/sticky_notes"
    /\ response[r].status = 201
    /\ ~envelope[r].hasIsError
    /\ EnvelopeText(r).value = CreatedEntity("note1")

(***************************************************************************)
(* Properties of the tool catalogue                                        *)
(***************************************************************************)

\* The verb of a tool name: miro_<verb>_<entity>.
Verb(name) == Split(name, "_")[2]

MutatingVerbs == {"create", "update", "delete", "copy", "share", "attach", "remove"}
ReadingVerbs == {"get", "list"}

\* A tool handler returned for request r from its try block.
ToolSucceeded(r) == ToolReturned(r) /\ ~result[r].threw

\* The text holds what the client returned and nothing around it.
RawPayload(r) ==
  /\ EnvelopeText(r).shape \in {"json", "markdown", "undefined"}
  /\ EnvelopeText(r).value = result[r].val

\* The text encodes { success: true, message, <key>: result }.
SuccessWithEntity(r) ==
  /\ EnvelopeText(r).shape = "success"
  /\ EnvelopeText(r).parts = <<Tool(invocation[r].tool).key>>
  /\ Tool(invocation[r].tool).key # ""
  /\ EnvelopeText(r).value = result[r].val

\* C21: on success every mutating tool (create, update, delete, copy, share,
\* attach, remove) returns a text that encodes {success: true, message,
\* <entityKey>: result}, and every get or list tool returns the payload the
\* client gave it, wrapped in no other object.
C21_SuccessShapes ==
  \A r \in Reqs :
    ToolSucceeded(r) =>
      /\ Verb(invocation[r].tool) \in MutatingVerbs => SuccessWithEntity(r)
      /\ Verb(invocation[r].tool) \in ReadingVerbs => RawPayload(r)

\* C21 as amended: on success create, update and copy tools return
\* {success: true, message, <entityKey>: result}; delete, share, attach and
\* remove tools return {success: true, message} with no entity; get and list
\* tools return the client's payload unwrapped, except miro_get_item_tags,
\* which returns it as {tags: result}.
C21_SuccessShapesByVerb ==
  \A r \in Reqs :
    ToolSucceeded(r) =>
      LET verb == Verb(invocation[r].tool)
      IN /\ verb \in {"create", "update", "copy"} => SuccessWithEntity(r)
         /\ verb \in {"delete", "share", "attach", "remove"} =>
              /\ EnvelopeText(r).shape = "success"
              /\ EnvelopeText(r).parts = << >>
              /\ EnvelopeText(r).value = Undefined
         /\ (verb \in ReadingVerbs /\ invocation[r].tool # "miro_get_item_tags") =>
              RawPayload(r)
         /\ invocation[r].tool = "miro_get_item_tags" =>
              /\ EnvelopeText(r).shape = "object"
              /\ EnvelopeText(r).parts = <<"tags">>
              /\ EnvelopeText(r).value = result[r].val

\* C21 witness: miro_copy_board returned the copied board under the key
\* board after a 2xx answer with a JSON object.
C21_Witness ==
  \E r \in Reqs :
    /\ ToolSucceeded(r)
    /\ invocation[r].tool = "miro_copy_board"
    /\ response[r].status \in 200..299
    /\ result[r].val.kind = "obj"
    /\ EnvelopeText(r).shape = "success"
    /\ EnvelopeText(r).parts = <<"board">>
    /\ EnvelopeText(r).value = response[r].body

(***************************************************************************)
(* Mutations and the remote service's state                                *)
(***************************************************************************)

\* The operations one request slot may have applied at the remote service
\* before no further mutating tool is started in it.
MaxApplied == 2

\* The tools explored with the remote service's state: two that mutate and
\* one that reads.
MutationTools ==
  {Tool("miro_create_sticky_note"), Tool("miro_delete_sticky_note"),
   Tool("miro_get_sticky_note")}

\* The operation a call asks the remote service for; a GET changes nothing.
Operation(call) == [method |-> call.method, url |-> call.url]
Mutates(call) == call.method # "GET"

\* The remote log of request r once the call in flight has taken effect.
Applied(r) ==
  LET call == calls[r][Len(calls[r])]
  IN IF Mutates(call) THEN Append(remote[r], Operation(call)) ELSE remote[r]

\* The MCP handler dispatches a tools/call to one of the tools explored.
CallMutationTool(r) ==
  /\ pc[r] = "serving"
  /\ inbound[r].via = "http"
  /\ Len(remote[r]) < MaxApplied
  /\ \E tool \in MutationTools :
       invocation' = [invocation EXCEPT ![r] =
                        [tool |-> tool.name, plan |-> ToolCalls(tool), step |-> 1,
                         format |-> ""]]
  /\ pc' = [pc EXCEPT ![r] = "calling"]
  /\ UNCHANGED <<inbound, httpResponse, client, calls, inflight, response, outcome,
                 result, envelope, remote, server>>

\* The remote service answers the call in flight; with a 2xx answer it has
\* applied the operation.
RemoteApplyAndRespond(r) ==
  /\ pc[r] = "awaiting"
  /\ \E resp \in ConcurrentResponses :
       /\ response' = [response EXCEPT ![r] = resp]
       /\ Settle(r, Classify(resp))
       /\ remote' = [remote EXCEPT ![r] = IF Ok(resp.status) THEN Applied(r) ELSE @]
  /\ inflight' = [inflight EXCEPT ![r] = inflight[r] - 1]
  /\ UNCHANGED <<inbound, client, calls, server>>

\* The remote service applied the operation and its answer is lost on the
\* way back: fetch rejects.
ResponseLost(r) ==
  /\ pc[r] = "awaiting"
  /\ Settle(r, FetchFailed)
  /\ remote' = [remote EXCEPT ![r] = Applied(r)]
  /\ inflight' = [inflight EXCEPT ![r] = inflight[r] - 1]
  /\ UNCHANGED <<inbound, client, calls, response, server>>

\* The inbound request is aborted while it is served: the invocation ends
\* where it is, nothing is returned, and a call already handed to fetch (it
\* carries no abort signal) takes effect at the remote service or not.
Abort(r) ==
  /\ pc[r] \in {"serving", "calling", "awaiting"}
  /\ inbound[r].via = "http"
  /\ \E lands \in BOOLEAN :
       remote' = [remote EXCEPT ![r] =
                    IF pc[r] = "awaiting" /\ lands THEN Applied(r) ELSE @]
  /\ pc' = [pc EXCEPT ![r] = "idle"]
  /\ inbound' = [inbound EXCEPT ![r] = NoInbound]
  /\ httpResponse' = [httpResponse EXCEPT ![r] = NoHttpResponse]
  /\ client' = [client EXCEPT ![r] = NoClient]
  /\ invocation' = [invocation EXCEPT ![r] = NoInvocation]
  /\ calls' = [calls EXCEPT ![r] = << >>]
  /\ inflight' = [inflight EXCEPT ![r] = 0]
  /\ response' = [response EXCEPT ![r] = NoResponse]
  /\ outcome' = [outcome EXCEPT ![r] = Pending]
  /\ result' = [result EXCEPT ![r] = Pending]
  /\ envelope' = [envelope EXCEPT ![r] = NoEnvelope]
  /\ server' = [server EXCEPT ![r] = NoServer]

NextRemote ==
  \E r \in Reqs :
    \/ Fetch(r)
    \/ CallMutationTool(r)
    \/ ClientCall(r)
    \/ RemoteApplyAndRespond(r)
    \/ ResponseLost(r)
    \/ TransportFault(r)
    \/ Abort(r)
    \/ Finish(r)

SpecRemote == Init /\ [][NextRemote]_vars

\* C22: what the remote service applied stays applied whatever the adapter
\* does afterwards (a lost response, an aborted request, the end of the
\* request): no step takes an operation back, an operation is applied once
\* for the one call in flight, and within a request no call follows another,
\* so neither a compensating call nor a second copy of the mutation is made.
C22_MutationPersists ==
  [][\A r \in Reqs :
       /\ Len(remote'[r]) >= Len(remote[r])
       /\ SubSeq(remote'[r], 1, Len(remote[r])) = remote[r]
       /\ remote'[r] # remote[r] =>
            /\ inflight[r] = 1
            /\ inflight'[r] = 0
            /\ remote'[r] = Append(remote[r], Operation(calls[r][Len(calls[r])]))
       /\ (calls'[r] # calls[r] /\ calls'[r] # << >>) =>
            /\ calls[r] = << >>
            /\ Len(calls'[r]) = 1]_vars

\* C22 witness: miro_delete_sticky_note's DELETE was applied, its response
\* was lost, the handler returned a failure envelope, and the one call made
\* is the deletion the remote service holds.
C22_Witness ==
  \E r \in Reqs :
    /\ ToolReturned(r)
    /\ invocation[r].tool = "miro_delete_sticky_note"
    /\ outcome[r] = FetchFailed
    /\ envelope[r].isError
    /\ Len(calls[r]) = 1
    /\ remote[r] = <<Operation(calls[r][1])>>
    /\ remote[r][1].method = "DELETE"

(***************************************************************************)
(* The server built for a request and the tools registered on it           *)
(***************************************************************************)

\* A server that registers the document tools for one tenant only.
createStatelessServer_byTenant(credentials) ==
  [built |-> TRUE,
   tools |-> {t.name : t \in IF credentials.accessToken = "tokA"
                             THEN ToolCatalogue
                             ELSE ToolCatalogue \ registerDocumentTools}]

\* createStatelessServer(credentials): a new McpServer on which every
\* register function and the inline server.tool call have registered their
\* tools; the credentials go to the client only.
createStatelessServer(credentials) ==
  [built |-> TRUE, tools |-> {t.name : t \in ToolCatalogue}]

\* The names a caller may put into a tools/call: those the README lists,
\* those the default response lists and one that nobody lists.
RequestedTools ==
  ReadmeTools \cup {InfoTools[i] : i \in 1..Len(InfoTools)} \cup {"miro_get_everything"}

\* The MCP server's answer to a tools/call of a name that is not registered.
UnknownToolResponse ==
  [status |-> 200, kind |-> "unknown_tool", contentType |-> "mcp",
   required_headers |-> << >>, tools |-> << >>]

\* fetch(request), the request carrying the name of the tool it calls when
\* it is a POST /mcp: the server is built for the request like the client.
FetchNamed(r) ==
  /\ pc[r] = "idle"
  /\ Admit(r)
  /\ \E path \in Paths, method \in HttpMethods, header \in TokenHeaders :
       LET credentials == parseTenantCredentials(header)
           route == Route(path, method)
           serve == route = "mcp" /\ validateCredentials(credentials)
       IN /\ \E name \in IF route = "mcp" THEN RequestedTools ELSE {""} :
               inbound' = [inbound EXCEPT ![r] =
                             [via |-> "http", path |-> path, method |-> method,
                              header |-> header, tool |-> name]]
          /\ client' = [client EXCEPT ![r] =
                          IF serve THEN createMiroClient(credentials) ELSE NoClient]
          /\ server' = [server EXCEPT ![r] =
                          IF serve THEN createStatelessServer(credentials) ELSE NoServer]
          /\ httpResponse' = [httpResponse EXCEPT ![r] =
                                IF serve THEN NoHttpResponse ELSE StaticResponse(route)]
          /\ pc' = [pc EXCEPT ![r] = IF serve THEN "serving" ELSE "done"]
  /\ UNCHANGED <<invocation, calls, inflight, response, outcome, result, envelope,
                 remote>>

\* The MCP handler looks the name up among the tools registered on the
\* request's server: it enters the handler found, or answers that there is
\* no such tool.
CallByName(r) ==
  /\ pc[r] = "serving"
  /\ server[r].built
  /\ IF inbound[r].tool \in server[r].tools
     THEN /\ \E format \in Formats(Tool(inbound[r].tool)) :
               invocation' = [invocation EXCEPT ![r] =
                                [tool |-> inbound[r].tool,
                                 plan |-> ToolCalls(Tool(inbound[r].tool)),
                                 step |-> 1, format |-> format]]
          /\ pc' = [pc EXCEPT ![r] = "calling"]
          /\ UNCHANGED httpResponse
     ELSE /\ httpResponse' = [httpResponse EXCEPT ![r] = UnknownToolResponse]
          /\ pc' = [pc EXCEPT ![r] = "done"]
          /\ UNCHANGED invocation
  /\ UNCHANGED <<inbound, client, calls, inflight, response, outcome, result,
                 envelope, remote, server>>

NextCatalogue ==
  \E r \in Reqs :
    \/ FetchNamed(r)
    \/ CallByName(r)
    \/ ClientCall(r)
    \/ RemoteRespondConcurrent(r)
    \/ TransportFault(r)
    \/ Finish(r)

SpecCatalogue == Init /\ [][NextCatalogue]_vars

\* The tools/call of request r was looked up on the server built for it.
LookedUp(r) == server[r].built /\ pc[r] \in {"calling", "awaiting", "done"}

\* C23: every tool name the README lists under "Available Tools" is
\* registered on the server built for a request, so a call of it enters a
\* handler and is not answered as an unknown tool.
C23_ReadmeToolsRegistered ==
  \A r \in Reqs :
    server[r].built =>
      /\ ReadmeTools \subseteq server[r].tools
      /\ (LookedUp(r) /\ inbound[r].tool \in ReadmeTools) =>
           /\ invocation[r].tool = inbound[r].tool
           /\ httpResponse[r] # UnknownToolResponse

\* C26: the tools registered on a request's server are the same for every
\* request, whatever its credentials and whatever came before, none is added
\* or removed while the server lives, and they are the tools the default
\* response lists.
C26_CatalogueFixed ==
  /\ [](\A r \in Reqs :
          /\ server[r].built =>
               /\ server[r].tools = {InfoTools[i] : i \in 1..Len(InfoTools)}
               /\ Cardinality(server[r].tools) = Len(InfoTools)
          /\ httpResponse[r].kind = "info" => httpResponse[r].tools = InfoTools)
  /\ [][\A r \in Reqs :
          (server[r].built /\ server'[r].built) => server'[r] = server[r]]_vars

\* C26 witness: the second tenant's request called miro_get_document on a
\* server that holds the tools the default response lists, and the handler
\* returned.
C26_Witness ==
  \E r \in Reqs :
    /\ server[r].built
    /\ client[r].credentials.accessToken = "tokB"
    /\ ToolReturned(r)
    /\ invocation[r].tool = "miro_get_document"
    /\ server[r].tools = {InfoTools[i] : i \in 1..Len(InfoTools)}

\* C24: in markdown mode a page of n > 0 entries whose label is none of
\* boards, items, members and tags is rendered as a table whose header names
\* the first 5 keys of the first record, followed by one row per record in
\* which a key the record lacks shows the placeholder.
C24_GenericTable ==
  \A r \in Reqs :
    (PageRendered(r) /\ invocation[r].format = "markdown"
       /\ Tool(invocation[r].tool).label \notin {"boards", "items", "members", "tags"}
       /\ Len(result[r].val.data.items) > 0) =>
      LET items == result[r].val.data.items
          keys == FirstKeys(items[1])
          lines == TextLines(EnvelopeText(r).parts)
          sep == SeparatorRow(EnvelopeText(r).parts)
      IN /\ sep > 1
         /\ Len(keys) <= 5
         /\ lines[sep - 1] = TableRow(keys)
         /\ DataRows(EnvelopeText(r).parts) = Len(items)
         /\ Len(lines) = sep + Len(items)
         /\ \A i \in 1..Len(items) :
              lines[sep + i] =
                TableRow([k \in 1..Len(keys) |->
                            IF items[i][keys[k]].t \in {"absent", "null"} THEN "-"
                            ELSE JsString(items[i][keys[k]])])

\* A caller of its own invoked a typed list helper for request r.
TypedListCalled(r) ==
  /\ inbound[r].via = "direct"
  /\ invocation[r].plan # << >>
  /\ ClientMethod(CurrentMethod(r)).fixedType # ""

\* C25: listStickyNotes, listShapes, listTexts, listCards and listFrames do
\* what listItems does on the same board with the type fixed to their kind:
\* one GET to /boards/{id}/items carrying the caller's limit and cursor
\* unchanged and the helper's type, whatever type the caller's params held,
\* and the result of that call is what they return.
C25_TypedListHelpers ==
  \A r \in Reqs :
    TypedListCalled(r) =>
      LET a == invocation[r].args
          fixed == JString(ClientMethod(CurrentMethod(r)).fixedType)
      IN /\ Len(calls[r]) <= 1
         /\ (pc[r] \in {"awaiting", "done"} /\ HasAccessToken(client[r].credentials)) =>
              Len(calls[r]) = 1
         /\ \A i \in 1..Len(calls[r]) :
              /\ calls[r][i].method = "GET"
              /\ ~calls[r][i].hasBody
              /\ UrlPath(calls[r][i].url) = API_BASE_URL \o "/boards/b1/items"
              /\ QueryParam(calls[r][i].url, "limit") =
                   IF a.limit = Absent THEN Absent ELSE JString(ToString(a.limit.n))
              /\ QueryParam(calls[r][i].url, "cursor") = a.cursor
              /\ QueryParam(calls[r][i].url, "type") = fixed
              /\ calls[r][i] =
                   OutgoingRequest(client[r].credentials,
                                   listItems(a.boardId,
                                             [limit |-> a.limit, cursor |-> a.cursor,
                                              type |-> fixed]))
         /\ pc[r] = "done" => result[r] = outcome[r]

\* C25 witness: listFrames was called with limit 50, a cursor and the type
\* shape in its params, and its GET carries type=frame.
C25_Witness ==
  \E r \in Reqs :
    /\ TypedListCalled(r)
    /\ CurrentMethod(r) = "listFrames"
    /\ invocation[r].args.type = JString("shape")
    /\ invocation[r].args.limit = JNumber(50)
    /\ invocation[r].args.cursor = JString("a&b =1+%")
    /\ pc[r] = "done"
    /\ Len(calls[r]) = 1
    /\ QueryParam(calls[r][1].url, "type") = JString("frame")
    /\ QueryParam(calls[r][1].url, "limit") = JString("50")
    /\ ~result[r].threw

\* C27: request() gives every remote response the outcome of the first rule
\* that matches, in the order 429, 401/403, any other status outside 2xx,
\* 204, JSON decoding: a 429 is always and only a RateLimitError, a 401 or
\* 403 always and only an AuthenticationError, any other status outside 2xx
\* always and only a generic MiroApiError with that status, and a result is
\* returned for 2xx statuses only.
C27_StatusRuleOrder ==
  \A r \in Reqs :
    Answered(r) =>
      LET st == response[r].status
          out == outcome[r]
          thrown == IF out.threw THEN out.err.name ELSE "none"
      IN /\ st = 429 <=> thrown = "RateLimitError"
         /\ st \in {401, 403} <=> thrown = "AuthenticationError"
         /\ (~Ok(st) /\ st \notin {429, 401, 403}) <=> thrown = "MiroApiError"
         /\ thrown = "MiroApiError" => out.err.statusCode = st
         /\ st = 204 => out = Returned(Undefined)
         /\ (Ok(st) /\ st # 204) =>
              IF response[r].body.kind = "invalid"
              THEN out.threw /\ ~out.err.isMiroApiError
              ELSE out = Returned(response[r].body)
         /\ ~out.threw => Ok(st)

\* C27 witness: a 429 whose body is a JSON object with a message, which the
\* generic rule would have used, ended as a RateLimitError.
C27_Witness ==
  \E r \in Reqs :
    /\ Answered(r)
    /\ response[r].status = 429
    /\ response[r].body.kind = "obj"
    /\ response[r].body.message = "remote says no"
    /\ outcome[r].threw
    /\ outcome[r].err.name = "RateLimitError"
    /\ outcome[r].err.message = "Rate limit exceeded"

\* testConnection, called by the miro_test_connection tool or by a caller of
\* the client, has ended for request r.
TestConnectionEnded(r) ==
  /\ pc[r] = "done"
  /\ invocation[r].plan = <<"testConnection">>
  /\ outcome[r].settled

\* C28: testConnection never fails: whatever request() ended with (a 401 or
\* 403, a 429, another status outside 2xx, a missing token, a transport
\* fault) it returns {connected: false, message} with the failure's message,
\* and the miro_test_connection tool then returns an envelope without
\* isError that holds this object.
C28_TestConnectionNeverFails ==
  \A r \in Reqs :
    TestConnectionEnded(r) =>
      /\ ~result[r].threw
      /\ outcome[r].threw =>
           result[r].val = ConnectionResult("false", outcome[r].err.message)
      /\ invocation[r].tool = "miro_test_connection" =>
           /\ ~envelope[r].hasIsError
           /\ EnvelopeText(r).isString
           /\ EnvelopeText(r).value = result[r].val

\* C28 witness: the remote service answered 429 to miro_test_connection and
\* the tool returned {connected: false, message: "Rate limit exceeded"} in
\* an envelope without isError.
C28_Witness ==
  \E r \in Reqs :
    /\ TestConnectionEnded(r)
    /\ invocation[r].tool = "miro_test_connection"
    /\ response[r].status = 429
    /\ outcome[r].threw
    /\ ~envelope[r].hasIsError
    /\ EnvelopeText(r).value = ConnectionResult("false", "Rate limit exceeded")

\* An update tool that takes optional x and y was called for request r with
\* arguments its schema accepts.
UpdateCall(r) ==
  /\ ToolCallArrived(r)
  /\ Tool(inbound[r].tool) \in UpdateTools
  /\ ValidArguments(inbound[r].tool, inbound[r].arguments)

\* Both coordinates were supplied with the call of request r.
BothCoordinates(r) ==
  inbound[r].arguments.x.t # "absent" /\ inbound[r].arguments.y.t # "absent"

\* C29: for every update tool that takes optional x and y (sticky note,
\* shape, text, card, frame, image, embed, app card) the PATCH body contains
\* position exactly when both x and y were supplied, and then with these two
\* values; with one coordinate only there is no validation error, the one
\* PATCH is still issued, without position, and the tool reports success
\* when the remote call succeeded.
C29_PositionIffBothCoordinates ==
  \A r \in Reqs :
    UpdateCall(r) =>
      /\ httpResponse[r].kind # "invalid_params"
      /\ Len(calls[r]) <= 1
      /\ pc[r] \in {"awaiting", "done"} => Len(calls[r]) = 1
      /\ \A i \in 1..Len(calls[r]) :
           /\ calls[r][i].method = "PATCH"
           /\ calls[r][i].hasBody
           /\ calls[r][i].body.position.present <=> BothCoordinates(r)
           /\ BothCoordinates(r) =>
                /\ calls[r][i].body.position.keys.x = inbound[r].arguments.x
                /\ calls[r][i].body.position.keys.y = inbound[r].arguments.y
      /\ (Answered(r) /\ ~outcome[r].threw) =>
           /\ ToolReturned(r)
           /\ ~envelope[r].hasIsError
           /\ EnvelopeText(r).shape = "success"

\* C29 witness: miro_update_shape was called with x = 10 and no y; the PATCH
\* to the shape went out without position and, answered 200, the tool
\* reported success.
C29_Witness ==
  \E r \in Reqs :
    /\ UpdateCall(r)
    /\ inbound[r].tool = "miro_update_shape"
    /\ inbound[r].arguments.x = JNumber(10)
    /\ inbound[r].arguments.y = Absent
    /\ Len(calls[r]) = 1
    /\ calls[r][1].method = "PATCH"
    /\ calls[r][1].url = "https://api.miro.com/v2/boards/b1/shapes/i1"
    /\ ~calls[r][1].body.position.present
    /\ response[r].status = 200
    /\ ToolReturned(r)
    /\ ~envelope[r].hasIsError
    /\ EnvelopeText(r).shape = "success"

(***************************************************************************)
(* The entry points of the worker: fetch and the stateful agent            *)
(***************************************************************************)

\* MiroMcpAgent.init(): throws, whatever the state of the agent.
MiroMcpAgent_init ==
  Threw(RuntimeError("Error",
                     "Stateful mode (McpAgent) is not supported for multi-tenant deployments. "
                       \o "Use the stateless /mcp endpoint with X-Miro-Access-Token header instead."))

\* The runtime starts the stateful agent and awaits its init().
AgentInit(r) ==
  /\ pc[r] = "idle"
  /\ Admit(r)
  /\ inbound' = [inbound EXCEPT ![r] = [NoInbound EXCEPT !.via = "agent"]]
  /\ outcome' = [outcome EXCEPT ![r] = MiroMcpAgent_init]
  /\ pc' = [pc EXCEPT ![r] = "done"]
  /\ UNCHANGED <<httpResponse, client, invocation, calls, inflight, response, result,
                 envelope, remote, server>>

NextWorker ==
  \E r \in Reqs :
    \/ Fetch(r)
    \/ AgentInit(r)
    \/ CallTool(r)
    \/ ClientCall(r)
    \/ RemoteRespond(r)
    \/ TransportFault(r)
    \/ Finish(r)

SpecWorker == Init /\ [][NextWorker]_vars

\* Nothing was built or called for request r.
NothingBuilt(r) ==
  /\ client[r] = NoClient
  /\ ~server[r].built
  /\ invocation[r] = NoInvocation
  /\ calls[r] = << >>
  /\ inflight[r] = 0
  /\ response[r] = NoResponse

\* C30: only POST /mcp reads credentials. A request to /health, to /sse, to
\* /mcp with another method or to any other path is answered at once,
\* whatever its token header holds: /health with HTTP 200 and status ok,
\* /sse with HTTP 501, the rest with the info document, never with the
\* rejection for missing credentials, and no client is constructed and no
\* remote call made for it. The stateful agent's init always throws.
C30_OnlyPostMcpReadsCredentials ==
  \A r \in Reqs :
    /\ (inbound[r].via = "http" /\ ~(inbound[r].path = "/mcp" /\ inbound[r].method = "POST")) =>
         /\ pc[r] = "done"
         /\ NothingBuilt(r)
         /\ outcome[r] = Pending
         /\ httpResponse[r].kind # "Unauthorized"
         /\ IF inbound[r].path = "/health"
            THEN httpResponse[r].status = 200 /\ httpResponse[r].kind = "health"
            ELSE IF inbound[r].path = "/sse"
            THEN httpResponse[r].status = 501 /\ httpResponse[r].kind = "sse"
            ELSE httpResponse[r].status = 200 /\ httpResponse[r].kind = "info"
    /\ (inbound[r].via = "http" /\ inbound[r].path = "/mcp" /\ inbound[r].method = "POST"
          /\ inbound[r].header \in {NoTokenHeader, TokenHeader("")}) =>
         /\ httpResponse[r].status = 401
         /\ httpResponse[r].kind = "Unauthorized"
         /\ NothingBuilt(r)
    /\ inbound[r].via = "agent" =>
         /\ pc[r] = "done"
         /\ outcome[r].threw
         /\ outcome[r] = MiroMcpAgent_init
         /\ NothingBuilt(r)
         /\ httpResponse[r] = NoHttpResponse

\* C30 witness: a GET /mcp without token header was answered with the info
\* document and HTTP 200, with no client built.
C30_Witness ==
  \E r \in Reqs :
    /\ inbound[r].via = "http"
    /\ inbound[r].path = "/mcp"
    /\ inbound[r].method = "GET"
    /\ inbound[r].header = NoTokenHeader
    /\ pc[r] = "done"
    /\ httpResponse[r].status = 200
    /\ httpResponse[r].kind = "info"
    /\ client[r] = NoClient
    /\ calls[r] = << >>

====
